---- MODULE Spec2Model ----
(***************************************************************************)
(* cortex-memory: the memory lifecycle and context continuity engine.      *)
(*                                                                         *)
(* The Record Store is SQLite: every store function opens a connection,    *)
(* runs its statements, commits and closes, so one store function is one   *)
(* atomic step and a function that calls several store functions is a      *)
(* sequence of steps other callers can interleave with.                    *)
(*                                                                         *)
(* Three subsystems share the module, each with its own specification:     *)
(*   SpecCtx    the prepared-context handoff (context/prepare.py)          *)
(*   SpecDecay  the decay engine (pipeline/consolidate.py)                 *)
(*   SpecEntity entity resolution (pipeline/ingest.py)                     *)
(***************************************************************************)
EXTENDS Integers, Sequences, FiniteSets, TLC

\* Python NULL and SQL NULL, where a number (a row id, a timestamp) may stand.
NULL == -1

----------------------------------------------------------------------------
(* Bounds of the model.                                                    *)

\* The clock runs from second 0 to second MaxSec.
MaxSec == 1
\* Rows the prepared_contexts table may hold.
MaxContexts == 2

\* The microsecond fields the clock shows: .000000 and one other.
Micros == {0, 1}
\* save_prepared_context is called with ttl_days in TtlDays.
TtlDays == {0, 1}

Callers == {"c1", "c2"}

\* Rows of the memories table.
MaxMemories == 2
\* apply_decay runs started in one behaviour.
MaxRuns == 2

\* set_memory_protected calls in one behaviour.
MaxProtectCalls == 1

\* Concurrent apply_decay runs (CLI, scheduled job, POST /decay).
Runners == {"d1", "d2"}

----------------------------------------------------------------------------
(* Time.  A datetime is [sec, us]: whole units and the microsecond field.  *)
(* The whole unit is the resolution of SQLite's CURRENT_TIMESTAMP; a TTL   *)
(* is a whole number of these units (a day is a whole number of seconds).  *)

VARIABLES
  now,                \* the wall clock (datetime.utcnow())
  prepared_contexts,  \* table prepared_contexts, in insertion (rowid) order
  pc,                 \* per caller: "idle", "marking" (between the read and
                      \* the write of get_prepared_context), "done"
  args,               \* per caller: the argument the call has tested, and its
                      \* value: mark_used when a row was found, fallback when not
  ctx,                \* per caller: the local ctx (a row id, or NULL)
  ret,                \* per caller: what the call returned or raised
  seen,               \* per caller: `consumed` when its query ran (history)
  expired,            \* per caller: the unused rows whose expires_at was not
                      \* in the future when its query ran (history)
  consumed            \* ids returned by completed mark_used=True calls (history)

ctxVars == <<now, prepared_contexts, pc, args, ctx, ret, seen, expired, consumed>>

Epoch == [sec |-> 0, us |-> 0]

TimeLT(a, b) == a.sec < b.sec \/ (a.sec = b.sec /\ a.us < b.us)

\* datetime + timedelta(days = n)
AddDays(t, n) == [sec |-> t.sec + n, us |-> t.us]

\* datetime.isoformat(): the text "<date and time>" when the microsecond
\* field is 0 and "<date and time>.<microseconds>" otherwise.  A text is the
\* sequence of its fixed-width fields; the "." is the presence of field 2.
isoformat(t) == IF t.us = 0 THEN <<t.sec>> ELSE <<t.sec, t.us>>

\* SQLite's comparison of two TEXT values (memcmp, a proper prefix is less).
TextLT(a, b) ==
  \E i \in 1..Len(b) :
    /\ \A j \in 1..(i - 1) : j <= Len(a) /\ a[j] = b[j]
    /\ i > Len(a) \/ a[i] < b[i]

\* CURRENT_TIMESTAMP: 'YYYY-MM-DD HH:MM:SS', the clock cut to whole seconds.
CURRENT_TIMESTAMP(t) == t.sec

\* The schema's default for prepared_contexts.created_at (the INSERT of
\* save_prepared_context gives no created_at).
created_at_default(t) == CURRENT_TIMESTAMP(t)

----------------------------------------------------------------------------
(* Store: prepared contexts.                                               *)

\* new_id(): a fresh uuid4; the model numbers rows in insertion order.
new_id(rows) == Len(rows) + 1

RowOf(rows, id) == CHOOSE r \in {rows[i] : i \in 1..Len(rows)} : r.id = id

\* save_prepared_context: expires = utcnow() + timedelta(days=ttl_days),
\* stored as expires.isoformat(); used_at stays NULL.
save_prepared_context(rows, t, ttl_days) ==
  Append(rows, [id         |-> new_id(rows),
                created_at |-> created_at_default(t),
                expires_at |-> isoformat(AddDays(t, ttl_days)),
                used_at    |-> NULL])

\* Mutant: the query forgets "used_at IS NULL".
UnusedWhereAnyUse(r, t) == TextLT(isoformat(t), r.expires_at)

\* Mutant: the query compares with >= instead of >.
UnusedWhereAtOrAfter(r, t) == r.used_at = NULL /\ ~TextLT(r.expires_at, isoformat(t))

\* WHERE used_at IS NULL AND expires_at > ?   (? = utcnow().isoformat())
UnusedWhere(r, t) == r.used_at = NULL /\ TextLT(isoformat(t), r.expires_at)

\* get_unused_context: ... ORDER BY created_at DESC LIMIT 1.  SQLite leaves
\* the order of rows with equal created_at undefined, so every matching row
\* with the greatest created_at is a possible answer; NULL when none matches.
get_unused_context(rows, t) ==
  LET match == {i \in 1..Len(rows) : UnusedWhere(rows[i], t)}
      first == {i \in match : \A j \in match : rows[j].created_at <= rows[i].created_at}
  IN  IF match = {} THEN {NULL} ELSE {rows[i].id : i \in first}

\* mark_context_used: UPDATE ... SET used_at = CURRENT_TIMESTAMP WHERE id = ?
mark_context_used(rows, context_id, t) ==
  [i \in 1..Len(rows) |->
     IF rows[i].id = context_id
       THEN [rows[i] EXCEPT !.used_at = CURRENT_TIMESTAMP(t)]
       ELSE rows[i]]

----------------------------------------------------------------------------
(* context/prepare.py                                                      *)

\* The payload of get_prepared_context: {"prompt", "source", "context_id"}.
PreparedPayload(context_id) == [source |-> "prepared", context_id |-> context_id]

\* build_fallback_context(): {"prompt", "source": "fallback"}.
FallbackPayload == [source |-> "fallback", context_id |-> NULL]

\* raise RuntimeError("No prepared context available. ...")
RuntimeError == [source |-> "RuntimeError", context_id |-> NULL]

\* A caller that has not returned.
NoReturn == [source |-> "none", context_id |-> NULL]

\* Mutant: the fallback is built whatever the flag says.
NoContextAlwaysFallback(fb) == FallbackPayload

\* What get_prepared_context does when get_unused_context found nothing:
\* raise when fallback is off, build_fallback_context() otherwise.
NoContextOutcome(fb) == IF fb THEN FallbackPayload ELSE RuntimeError

\* Mutant: a row another call has marked in the meantime is not delivered.
MarkedOutcomeGuarded(rows, context_id) ==
  IF \E i \in 1..Len(rows) : rows[i].id = context_id /\ rows[i].used_at # NULL
    THEN RuntimeError ELSE PreparedPayload(context_id)

\* What get_prepared_context returns after mark_context_used(ctx["id"]):
\* the payload of the row it read, whatever the row's used_at was.
MarkedOutcome(rows, context_id) == PreparedPayload(context_id)

\* The text of a stored timestamp read back as a datetime.
fromisoformat(s) == [sec |-> s[1], us |-> IF Len(s) > 1 THEN s[2] ELSE 0]

\* Rows that are unused and whose expires_at is not in the future at time t.
ExpiredUnused(rows, t) ==
  {rows[i].id : i \in {k \in 1..Len(rows) :
      rows[k].used_at = NULL /\ ~TimeLT(t, fromisoformat(rows[k].expires_at))}}

\* get_prepared_context(mark_used=True, fallback=False) tests mark_used only
\* with a row (if ctx: if mark_used:) and fallback only without one
\* (if not fallback:); the other argument is never read.
Tested(c, mu, fb) ==
  IF c # NULL THEN [name |-> "mark_used", value |-> mu]
              ELSE [name |-> "fallback", value |-> fb]

\* A caller that is not in a call has tested nothing.
NoArgs == [name |-> "none", value |-> FALSE]

InitCtx ==
  /\ now = Epoch
  /\ prepared_contexts = <<>>
  /\ pc = [p \in Callers |-> "idle"]
  /\ args = [p \in Callers |-> NoArgs]
  /\ ctx = [p \in Callers |-> NULL]
  /\ ret = [p \in Callers |-> NoReturn]
  /\ seen = [p \in Callers |-> {}]
  /\ expired = [p \in Callers |-> {}]
  /\ consumed = {}

\* Time passes: to a later instant of this second, or into the next second.
Tick ==
  /\ \E t \in [sec : {now.sec, now.sec + 1}, us : Micros] :
       /\ TimeLT(now, t)
       /\ t.sec <= MaxSec
       /\ now' = t
  /\ UNCHANGED <<prepared_contexts, pc, args, ctx, ret, seen, expired, consumed>>

\* The analysis step (or any caller) saves a prepared context.
SavePreparedContext ==
  /\ Len(prepared_contexts) < MaxContexts
  /\ \E ttl_days \in TtlDays :
       prepared_contexts' = save_prepared_context(prepared_contexts, now, ttl_days)
  /\ UNCHANGED <<now, pc, args, ctx, ret, seen, expired, consumed>>

\* Mutant: a row that was found is marked used whatever mark_used says.
GpcReadAlwaysMark(p) ==
  /\ pc[p] = "idle"
  /\ \E mu \in BOOLEAN, fb \in BOOLEAN, c \in get_unused_context(prepared_contexts, now) :
       /\ args' = [args EXCEPT ![p] = Tested(c, mu, fb)]
       /\ ctx' = [ctx EXCEPT ![p] = c]
       /\ IF c # NULL
            THEN /\ pc' = [pc EXCEPT ![p] = "marking"]
                 /\ ret' = ret
            ELSE /\ pc' = [pc EXCEPT ![p] = "done"]
                 /\ ret' = [ret EXCEPT ![p] =
                              IF c # NULL THEN PreparedPayload(c)
                                          ELSE NoContextOutcome(fb)]
  /\ seen' = [seen EXCEPT ![p] = consumed]
  /\ expired' = [expired EXCEPT ![p] = ExpiredUnused(prepared_contexts, now)]
  /\ UNCHANGED <<now, prepared_contexts, consumed>>

\* get_prepared_context(mark_used, fallback), up to and including its query:
\* ctx = get_unused_context(); with a row and mark_used the write is still
\* to come; with a row and no mark_used the payload is returned; with no
\* row the call raises or returns the fallback.
GpcRead(p) ==
  /\ pc[p] = "idle"
  /\ \E mu \in BOOLEAN, fb \in BOOLEAN, c \in get_unused_context(prepared_contexts, now) :
       /\ args' = [args EXCEPT ![p] = Tested(c, mu, fb)]
       /\ ctx' = [ctx EXCEPT ![p] = c]
       /\ IF c # NULL /\ mu
            THEN /\ pc' = [pc EXCEPT ![p] = "marking"]
                 /\ ret' = ret
            ELSE /\ pc' = [pc EXCEPT ![p] = "done"]
                 /\ ret' = [ret EXCEPT ![p] =
                              IF c # NULL THEN PreparedPayload(c)
                                          ELSE NoContextOutcome(fb)]
  /\ seen' = [seen EXCEPT ![p] = consumed]
  /\ expired' = [expired EXCEPT ![p] = ExpiredUnused(prepared_contexts, now)]
  /\ UNCHANGED <<now, prepared_contexts, consumed>>

\* get_prepared_context, from mark_context_used(ctx["id"]) to its return.
GpcMark(p) ==
  /\ pc[p] = "marking"
  /\ prepared_contexts' = mark_context_used(prepared_contexts, ctx[p], now)
  /\ ret' = [ret EXCEPT ![p] = MarkedOutcome(prepared_contexts, ctx[p])]
  /\ pc' = [pc EXCEPT ![p] = "done"]
  /\ consumed' = IF ret'[p].source = "prepared"
                   THEN consumed \cup {ret'[p].context_id} ELSE consumed
  /\ UNCHANGED <<now, args, ctx, seen, expired>>

\* The caller takes the result; it may call again.
Finish(p) ==
  /\ pc[p] = "done"
  /\ pc' = [pc EXCEPT ![p] = "idle"]
  /\ args' = [args EXCEPT ![p] = NoArgs]
  /\ ctx' = [ctx EXCEPT ![p] = NULL]
  /\ ret' = [ret EXCEPT ![p] = NoReturn]
  /\ seen' = [seen EXCEPT ![p] = {}]
  /\ expired' = [expired EXCEPT ![p] = {}]
  /\ UNCHANGED <<now, prepared_contexts, consumed>>

----------------------------------------------------------------------------
(* Numbers.  importance, decay_factor, the rate and the threshold are      *)
(* floats; the model computes with exact fractions <<numerator,            *)
(* denominator>> in lowest terms, denominator > 0; the float inf is        *)
(* <<1, 0>>.                                                               *)

RECURSIVE GCD(_, _)
GCD(a, b) == IF b = 0 THEN a ELSE GCD(b, a % b)

Abs(x) == IF x < 0 THEN -x ELSE x

Rat(n, d) == LET g == GCD(Abs(n), d) IN <<n \div g, d \div g>>

\* a * b
Mul(a, b) == Rat(a[1] * b[1], a[2] * b[2])

\* a < b
Less(a, b) == a[1] * b[2] < b[1] * a[2]

Zero == Rat(0, 1)

\* float("inf"): cortex remember --importance inf, or a JSON number beyond
\* the doubles (1e999).  inf * rate is inf, and inf < x is false.
Infinity == Rat(1, 0)

Finite(a) == a[2] # 0

\* A decay_factor column that is NULL.
NoFactor == <<>>

\* The rows the store may hold when decay runs: importance is nominally in
\* 0..1 but not enforced (POST /memory takes any float); decay_factor is an
\* optional per-row override; metadata may carry protected = true.
MemoryKinds ==
  { [importance |-> Rat(1, 2),  decay_factor |-> NoFactor,  protected |-> FALSE],
    [importance |-> Rat(1, 2),  decay_factor |-> NoFactor,  protected |-> TRUE],
    [importance |-> Rat(1, 2),  decay_factor |-> Rat(3, 2), protected |-> FALSE],
    [importance |-> Rat(1, 2),  decay_factor |-> Zero,      protected |-> FALSE],
    [importance |-> Rat(-1, 2), decay_factor |-> NoFactor,  protected |-> FALSE] }

\* apply_decay(decay_rate, min_importance, dry_run): any floats.
DecayCalls ==
  { [decay_rate |-> Rat(1, 2), min_importance |-> Rat(3, 10)],
    [decay_rate |-> Rat(1, 2), min_importance |-> Rat(-1, 1)] }

VARIABLES
  memories,      \* table memories: id -> [importance, decay_factor,
                 \*                        protected, archived]
  dpc,           \* per runner: "idle", "scan" (in the for loop), "done"
  dargs,         \* per runner: [decay_rate, min_importance, dry_run]
  drows,          \* per runner: the snapshot its SELECT returned
  idx,           \* per runner: the position of the for loop in drows
  decayed,       \* per runner: the local list decayed
  will_archive,  \* per runner: the local list will_archive
  protected,     \* per runner: the local list protected
  last,          \* the latest finished run: its arguments, snapshot and
                 \* lists (history)
  runs,          \* apply_decay runs started so far
  protectCalls   \* set_memory_protected calls made so far

VARIABLE
  collection     \* the Chroma collection: id -> [document, metadata]

decayVars == <<memories, dpc, dargs, drows, idx, decayed, will_archive,
               protected, last, runs, protectCalls>>

\* SELECT id, content, importance, decay_factor, metadata FROM memories
\* WHERE archived = 0, in rowid order.
RECURSIVE SelectFrom(_, _)
SelectFrom(mem, k) ==
  IF k > MaxMemories THEN <<>>
  ELSE (IF k \in DOMAIN mem /\ ~mem[k].archived
          THEN <<[id |-> k, importance |-> mem[k].importance,
                  decay_factor |-> mem[k].decay_factor,
                  protected |-> mem[k].protected]>>
          ELSE <<>>) \o SelectFrom(mem, k + 1)

SelectActive(mem) == SelectFrom(mem, 1)

\* Mutant: the protected flag is not looked at.
IsProtectedNever(row) == FALSE

\* Mutant: the per-row override is ignored.
EffectiveRateGlobalOnly(row, decay_rate) == decay_rate

\* meta.get("protected")
IsProtected(row) == row.protected

\* effective_rate = row["decay_factor"] or decay_rate: the override when it
\* is neither NULL nor 0.0, the global rate otherwise.
EffectiveRate(row, decay_rate) ==
  IF row.decay_factor # NoFactor /\ row.decay_factor[1] # 0
    THEN row.decay_factor ELSE decay_rate

\* Mutant: the importance is not multiplied.
NewImportanceSame(row, decay_rate) == row.importance

\* new_importance = row["importance"] * effective_rate
NewImportance(row, decay_rate) == Mul(row.importance, EffectiveRate(row, decay_rate))

\* Mutant: the comparison with the threshold is the wrong way round.
BelowThresholdFlipped(row, decay_rate, min_importance) ==
  Less(min_importance, NewImportance(row, decay_rate))

\* if new_importance < min_importance:
BelowThreshold(row, decay_rate, min_importance) ==
  Less(NewImportance(row, decay_rate), min_importance)

\* update_importance: UPDATE memories SET importance = ? WHERE id = ?
update_importance(mem, memory_id, importance) ==
  IF memory_id \in DOMAIN mem
    THEN [mem EXCEPT ![memory_id].importance = importance] ELSE mem

\* archive_memory: UPDATE memories SET archived = 1 WHERE id = ?
archive_memory(mem, memory_id) ==
  IF memory_id \in DOMAIN mem
    THEN [mem EXCEPT ![memory_id].archived = TRUE] ELSE mem

\* set_memory_protected: metadata["protected"] = True, or the key removed.
set_memory_protected(mem, memory_id, flag) ==
  IF memory_id \in DOMAIN mem
    THEN [mem EXCEPT ![memory_id].protected = flag] ELSE mem

\* Mutant: the dry run writes too.
WritesAlways(dry_run) == TRUE

\* The writes of one loop iteration are skipped in a dry run.
Writes(dry_run) == ~dry_run

NoDecayArgs == [decay_rate |-> Zero, min_importance |-> Zero, dry_run |-> FALSE]

\* No run has finished yet.
NoRun == [args |-> NoDecayArgs, rows |-> <<>>, decayed |-> <<>>,
          will_archive |-> <<>>, protected |-> <<>>]

InitDecay ==
  /\ memories \in [1..MaxMemories ->
                     {[importance |-> k.importance, decay_factor |-> k.decay_factor,
                       protected |-> k.protected, archived |-> FALSE] : k \in MemoryKinds}]
  /\ dpc = [r \in Runners |-> "idle"]
  /\ dargs = [r \in Runners |-> NoDecayArgs]
  /\ drows = [r \in Runners |-> <<>>]
  /\ idx = [r \in Runners |-> 0]
  /\ decayed = [r \in Runners |-> <<>>]
  /\ will_archive = [r \in Runners |-> <<>>]
  /\ protected = [r \in Runners |-> <<>>]
  /\ last = NoRun
  /\ runs = 0
  /\ protectCalls = 0

\* apply_decay, to the end of its SELECT.
DecayBegin(r) ==
  /\ dpc[r] = "idle"
  /\ \E c \in DecayCalls, dry \in BOOLEAN :
       dargs' = [dargs EXCEPT ![r] =
                   [decay_rate |-> c.decay_rate, min_importance |-> c.min_importance,
                    dry_run |-> dry]]
  /\ drows' = [drows EXCEPT ![r] = SelectActive(memories)]
  /\ idx' = [idx EXCEPT ![r] = 1]
  /\ dpc' = [dpc EXCEPT ![r] = IF SelectActive(memories) = <<>> THEN "done" ELSE "scan"]
  /\ UNCHANGED <<memories, decayed, will_archive, protected, last, protectCalls>>

\* One of the apply_decay runs of a behaviour.
DecayStart(r) ==
  /\ runs < MaxRuns
  /\ runs' = runs + 1
  /\ DecayBegin(r)

\* The memories of a store that is decayed until its memories are archived:
\* importance 1.0 or inf, no decay_factor, protected or not.
InitDecayUntilArchived ==
  /\ memories \in [1..MaxMemories ->
                     [importance : {Rat(1, 1), Infinity}, decay_factor : {NoFactor},
                      protected : BOOLEAN, archived : {FALSE}]]
  /\ dpc = [r \in Runners |-> "idle"]
  /\ dargs = [r \in Runners |-> NoDecayArgs]
  /\ drows = [r \in Runners |-> <<>>]
  /\ idx = [r \in Runners |-> 0]
  /\ decayed = [r \in Runners |-> <<>>]
  /\ will_archive = [r \in Runners |-> <<>>]
  /\ protected = [r \in Runners |-> <<>>]
  /\ last = NoRun
  /\ runs = 0
  /\ protectCalls = 0

\* A writing pass with rate 0.5 and min_importance 0.3 begins; passes are
\* not counted.
DecayPassStart ==
  /\ DecayBegin("d1")
  /\ dargs'["d1"].min_importance = Rat(3, 10)
  /\ ~dargs'["d1"].dry_run
  /\ UNCHANGED runs

\* Mutant: archiving a memory removes its vector from the collection.
DecayRowPurge(r) ==
  /\ dpc[r] = "scan"
  /\ LET row == drows[r][idx[r]]
         a == dargs[r]
         new == NewImportance(row, a.decay_rate)
     IN  IF IsProtected(row)
           THEN /\ protected' = [protected EXCEPT ![r] =
                       Append(@, [id |-> row.id, importance |-> row.importance])]
                /\ UNCHANGED <<memories, decayed, will_archive>>
         ELSE IF BelowThreshold(row, a.decay_rate, a.min_importance)
           THEN /\ will_archive' = [will_archive EXCEPT ![r] =
                       Append(@, [id |-> row.id, old_importance |-> row.importance,
                                  new_importance |-> new])]
                /\ memories' = IF Writes(a.dry_run)
                                 THEN archive_memory(memories, row.id) ELSE memories
                /\ UNCHANGED <<decayed, protected>>
           ELSE /\ decayed' = [decayed EXCEPT ![r] =
                       Append(@, [id |-> row.id, old_importance |-> row.importance,
                                  new_importance |-> new])]
                /\ memories' = IF Writes(a.dry_run)
                                 THEN update_importance(memories, row.id, new) ELSE memories
                /\ UNCHANGED <<will_archive, protected>>
  /\ idx' = [idx EXCEPT ![r] = @ + 1]
  /\ dpc' = [dpc EXCEPT ![r] = IF idx[r] = Len(drows[r]) THEN "done" ELSE "scan"]
  /\ collection' = IF /\ ~IsProtected(drows[r][idx[r]])
                        /\ BelowThreshold(drows[r][idx[r]], dargs[r].decay_rate,
                                          dargs[r].min_importance)
                        /\ Writes(dargs[r].dry_run)
                       THEN [m \in DOMAIN collection \ {drows[r][idx[r]].id} |->
                               collection[m]]
                       ELSE collection
  /\ UNCHANGED <<dargs, drows, last, runs, protectCalls>>

\* One iteration of the for loop: the row is skipped when protected,
\* archived when its new importance is below the threshold, re-scored
\* otherwise; each write is its own committed statement.  The loop
\* calls update_importance and archive_memory of the store and nothing of the
\* vector module.
DecayRow(r) ==
  /\ dpc[r] = "scan"
  /\ LET row == drows[r][idx[r]]
         a == dargs[r]
         new == NewImportance(row, a.decay_rate)
     IN  IF IsProtected(row)
           THEN /\ protected' = [protected EXCEPT ![r] =
                       Append(@, [id |-> row.id, importance |-> row.importance])]
                /\ UNCHANGED <<memories, decayed, will_archive>>
         ELSE IF BelowThreshold(row, a.decay_rate, a.min_importance)
           THEN /\ will_archive' = [will_archive EXCEPT ![r] =
                       Append(@, [id |-> row.id, old_importance |-> row.importance,
                                  new_importance |-> new])]
                /\ memories' = IF Writes(a.dry_run)
                                 THEN archive_memory(memories, row.id) ELSE memories
                /\ UNCHANGED <<decayed, protected>>
           ELSE /\ decayed' = [decayed EXCEPT ![r] =
                       Append(@, [id |-> row.id, old_importance |-> row.importance,
                                  new_importance |-> new])]
                /\ memories' = IF Writes(a.dry_run)
                                 THEN update_importance(memories, row.id, new) ELSE memories
                /\ UNCHANGED <<will_archive, protected>>
  /\ idx' = [idx EXCEPT ![r] = @ + 1]
  /\ dpc' = [dpc EXCEPT ![r] = IF idx[r] = Len(drows[r]) THEN "done" ELSE "scan"]
  /\ UNCHANGED <<dargs, drows, last, runs, protectCalls>>
  /\ UNCHANGED collection

\* The result dict of a finished run.
DecayResult(r) ==
  [dry_run |-> dargs[r].dry_run,
   decayed_count |-> Len(decayed[r]),
   archived_count |-> Len(will_archive[r]),
   protected_count |-> Len(protected[r])]

\* The caller takes the result.
DecayReturn(r) ==
  /\ dpc[r] = "done"
  /\ dpc' = [dpc EXCEPT ![r] = "idle"]
  /\ dargs' = [dargs EXCEPT ![r] = NoDecayArgs]
  /\ drows' = [drows EXCEPT ![r] = <<>>]
  /\ idx' = [idx EXCEPT ![r] = 0]
  /\ decayed' = [decayed EXCEPT ![r] = <<>>]
  /\ will_archive' = [will_archive EXCEPT ![r] = <<>>]
  /\ protected' = [protected EXCEPT ![r] = <<>>]
  /\ last' = [args |-> dargs[r], rows |-> drows[r], decayed |-> decayed[r],
              will_archive |-> will_archive[r], protected |-> protected[r]]
  /\ UNCHANGED <<memories, runs, protectCalls>>

\* cortex protect / unprotect.
SetMemoryProtected ==
  /\ protectCalls < MaxProtectCalls
  /\ protectCalls' = protectCalls + 1
  /\ \E m \in 1..MaxMemories, flag \in BOOLEAN :
       memories' = set_memory_protected(memories, m, flag)
  /\ UNCHANGED <<dpc, dargs, drows, idx, decayed, will_archive, protected, last, runs>>

\* A store with one ordinary memory and no decay run.
InitDecayIdle ==
  /\ memories = [m \in 1..1 |-> [importance |-> Rat(1, 2), decay_factor |-> NoFactor,
                                 protected |-> FALSE, archived |-> FALSE]]
  /\ dpc = [r \in Runners |-> "idle"]
  /\ dargs = [r \in Runners |-> NoDecayArgs]
  /\ drows = [r \in Runners |-> <<>>]
  /\ idx = [r \in Runners |-> 0]
  /\ decayed = [r \in Runners |-> <<>>]
  /\ will_archive = [r \in Runners |-> <<>>]
  /\ protected = [r \in Runners |-> <<>>]
  /\ last = NoRun
  /\ runs = 0
  /\ protectCalls = 0

----------------------------------------------------------------------------
(* Entity resolution.  A name is the sequence of its code points; a dict   *)
(* is the sequence of its <<key, value>> items in insertion order.         *)

\* Calls of ingest_entity started in one behaviour.
MaxIngests == 2

\* Concurrent callers of ingest_entity (POST /entity, seed_entities).
Ingesters == {"e1", "e2"}

\* "Al", "al", "Él", "él": A = 65, a = 97, l = 108, É = 201, é = 233.
Names == { <<65, 108>>, <<97, 108>>, <<201, 108>>, <<233, 108>> }

\* A summary argument that is None, a summary column that is NULL.
NoSummary == "None"

\* What a call carries besides the name: entity_type, summary, metadata
\* (metadata None behaves as {} in both branches of ingest_entity).
Payloads ==
  { [entity_type |-> "person",  summary |-> "s1",
     metadata |-> << <<"a", 0>>, <<"b", 2>> >>],
    [entity_type |-> "project", summary |-> "",
     metadata |-> << <<"a", 1>> >>],
    [entity_type |-> "person",  summary |-> "s2",
     metadata |-> <<>>],
    [entity_type |-> "project", summary |-> NoSummary,
     metadata |-> << <<"c", 3>> >>] }

\* SQLite's built-in LOWER(): it folds the 26 ASCII letters and leaves
\* every other character as it is.
LOWER(name) ==
  [i \in 1..Len(name) |->
     IF name[i] >= 65 /\ name[i] <= 90 THEN name[i] + 32 ELSE name[i]]

\* Python's str.lower(), on Latin-1: it folds A-Z and the accented capitals
\* U+00C0..U+00DE (U+00D7, the multiplication sign, has no case).
lower(name) ==
  [i \in 1..Len(name) |->
     IF \/ name[i] >= 65 /\ name[i] <= 90
        \/ name[i] >= 192 /\ name[i] <= 222 /\ name[i] # 215
       THEN name[i] + 32 ELSE name[i]]

\* Python truthiness of a summary: None and "" are false.
SummaryTruthy(summary) == summary # NoSummary /\ summary # ""

\* Python truthiness of a dict: {} is false.
DictTruthy(d) == d # <<>>

DictKeys(d) == {d[i][1] : i \in 1..Len(d)}

\* dict.update(new): a key old has keeps its place and takes the new value,
\* a key old lacks is added at the end.
RECURSIVE dict_update(_, _)
dict_update(old, new) ==
  IF new = <<>> THEN old
  ELSE LET item == Head(new)
           put == IF item[1] \in DictKeys(old)
                    THEN [i \in 1..Len(old) |->
                            IF old[i][1] = item[1] THEN item ELSE old[i]]
                    ELSE Append(old, item)
       IN  dict_update(put, Tail(new))

\* json.dumps of a dict: the text, here the keys and values in a row.
RECURSIVE json_dumps(_)
json_dumps(d) ==
  IF d = <<>> THEN <<>> ELSE <<Head(d)[1], Head(d)[2]>> \o json_dumps(Tail(d))

\* json.loads of such a text: the dict it denotes (a key given twice keeps
\* its first place and its last value).
RECURSIVE json_loads(_)
json_loads(text) ==
  IF text = <<>> THEN <<>>
  ELSE dict_update(<< <<text[1], text[2]>> >>, json_loads(SubSeq(text, 3, Len(text))))

VARIABLES
  entities,   \* table entities: rows [id, name, entity_type, summary,
              \*                       metadata (JSON text), last_referenced]
  epc,        \* per caller: "idle", "found", "meta", "insert", "done"
  eargs,      \* per caller: [name, entity_type, summary, metadata]
  existing,   \* per caller: the local existing
  eid,        \* per caller: the local eid
  before,     \* per caller: the table when the call started (history)
  ingests     \* ingest_entity calls started so far

entVars == <<entities, epc, eargs, existing, eid, before, ingests>>

\* existing = None
NoEntity ==
  [id |-> NULL, name |-> <<>>, entity_type |-> "None", summary |-> NoSummary,
   metadata |-> <<>>, last_referenced |-> NULL]

NoEntityArgs ==
  [name |-> <<>>, entity_type |-> "None", summary |-> NoSummary, metadata |-> <<>>]

VARIABLE
  entitiesDeleted   \* rows delete_entity has removed from entities so far

\* new_id() for a row of entities: a fresh uuid4, never one a deleted row had.
new_entity_id(rows, deleted) == new_id(rows) + deleted

\* INSERT INTO entities (id, name, entity_type, summary, metadata):
\* metadata is json.dumps(metadata or {}), last_referenced takes the
\* column default.
add_entity(rows, id, name, entity_type, summary, metadata, t) ==
  Append(rows, [id |-> id, name |-> name, entity_type |-> entity_type,
                summary |-> summary, metadata |-> json_dumps(metadata),
                last_referenced |-> created_at_default(t)])

\* SELECT * FROM entities WHERE LOWER(name) = LOWER(?), fetchone(): a row
\* that matches (the query has no ORDER BY), None when none does.
get_entity_by_name(rows, name) ==
  LET hits == {rows[i] : i \in {k \in 1..Len(rows) : LOWER(rows[k].name) = LOWER(name)}}
  IN  IF hits = {} THEN {NoEntity} ELSE hits

\* update_entity(entity_id, summary=summary)
update_entity_summary(rows, entity_id, summary, t) ==
  [i \in 1..Len(rows) |->
     IF rows[i].id = entity_id
       THEN [rows[i] EXCEPT !.summary = summary,
                            !.last_referenced = CURRENT_TIMESTAMP(t)]
       ELSE rows[i]]

\* update_entity(entity_id, metadata=metadata)
update_entity_metadata(rows, entity_id, metadata, t) ==
  [i \in 1..Len(rows) |->
     IF rows[i].id = entity_id
       THEN [rows[i] EXCEPT !.metadata = json_dumps(metadata),
                            !.last_referenced = CURRENT_TIMESTAMP(t)]
       ELSE rows[i]]

\* No entity on record, no call in progress.
InitEntity ==
  /\ entities = <<>>
  /\ epc = [p \in Ingesters |-> "idle"]
  /\ eargs = [p \in Ingesters |-> NoEntityArgs]
  /\ existing = [p \in Ingesters |-> NoEntity]
  /\ eid = [p \in Ingesters |-> NULL]
  /\ before = [p \in Ingesters |-> <<>>]
  /\ ingests = 0

\* The table after ingest_entity("Al", "person", "s1", {"a": 0, "b": 2}).
InitEntityOne ==
  /\ entities = add_entity(<<>>, 1, <<65, 108>>, "person", "s1",
                           << <<"a", 0>>, <<"b", 2>> >>, Epoch)
  /\ epc = [p \in Ingesters |-> "idle"]
  /\ eargs = [p \in Ingesters |-> NoEntityArgs]
  /\ existing = [p \in Ingesters |-> NoEntity]
  /\ eid = [p \in Ingesters |-> NULL]
  /\ before = [p \in Ingesters |-> <<>>]
  /\ ingests = 0

\* ingest_entity, to the end of existing = get_entity_by_name(name)
\* (memory_id is None, as in POST /entity and seed_entities).
IngestStart(p) ==
  /\ epc[p] = "idle"
  /\ ingests < MaxIngests
  /\ ingests' = ingests + 1
  /\ \E name \in Names, load \in Payloads :
       /\ eargs' = [eargs EXCEPT ![p] =
                      [name |-> name, entity_type |-> load.entity_type,
                       summary |-> load.summary, metadata |-> load.metadata]]
       /\ \E row \in get_entity_by_name(entities, name) :
            /\ existing' = [existing EXCEPT ![p] = row]
            /\ eid' = [eid EXCEPT ![p] = row.id]
            /\ epc' = [epc EXCEPT ![p] = IF row # NoEntity THEN "found" ELSE "insert"]
  /\ before' = [before EXCEPT ![p] = entities]
  /\ UNCHANGED entities

\* if summary: update_entity(eid, summary=summary)
IngestSummary(p) ==
  /\ epc[p] = "found"
  /\ entities' = IF SummaryTruthy(eargs[p].summary)
                   THEN update_entity_summary(entities, eid[p], eargs[p].summary, now)
                   ELSE entities
  /\ epc' = [epc EXCEPT ![p] = "meta"]
  /\ UNCHANGED <<eargs, existing, eid, before, ingests>>

\* Mutant: the metadata is read again from the table for the merge.
old_metaReread(existing_row, rows) ==
  json_loads(RowOf(rows, existing_row.id).metadata)

\* old_meta = json.loads(existing["metadata"]) if existing["metadata"] else {}:
\* the metadata of the row as get_entity_by_name returned it, whatever the
\* table holds by now.
old_meta(existing_row, rows) == json_loads(existing_row.metadata)

\* if metadata: old_meta = json.loads(existing["metadata"]);
\* old_meta.update(metadata); update_entity(eid, metadata=old_meta)
IngestMetadata(p) ==
  /\ epc[p] = "meta"
  /\ entities' = IF DictTruthy(eargs[p].metadata)
                   THEN update_entity_metadata(entities, eid[p],
                          dict_update(old_meta(existing[p], entities), eargs[p].metadata),
                          now)
                   ELSE entities
  /\ epc' = [epc EXCEPT ![p] = "done"]
  /\ UNCHANGED <<eargs, existing, eid, before, ingests>>

\* else: eid = add_entity(name, entity_type, summary, metadata)
IngestAdd(p) ==
  /\ epc[p] = "insert"
  /\ entities' = add_entity(entities, new_entity_id(entities, entitiesDeleted),
                            eargs[p].name, eargs[p].entity_type,
                            eargs[p].summary, eargs[p].metadata, now)
  /\ eid' = [eid EXCEPT ![p] = new_entity_id(entities, entitiesDeleted)]
  /\ epc' = [epc EXCEPT ![p] = "done"]
  /\ UNCHANGED <<eargs, existing, before, ingests>>

\* return eid
IngestReturn(p) ==
  /\ epc[p] = "done"
  /\ epc' = [epc EXCEPT ![p] = "idle"]
  /\ UNCHANGED <<entities, eargs, existing, eid, before, ingests>>

\* seed_entities, one entry of the seed list: existing =
\* get_entity_by_name(e["name"]); if not existing: ingest_entity(...) is
\* called next.  An entry whose name is on record is passed over.
SeedEntity(p) ==
  /\ epc[p] = "idle"
  /\ ingests < MaxIngests
  /\ ingests' = ingests + 1
  /\ \E name \in Names, load \in Payloads :
       /\ get_entity_by_name(entities, name) = {NoEntity}
       /\ eargs' = [eargs EXCEPT ![p] =
                      [name |-> name, entity_type |-> load.entity_type,
                       summary |-> load.summary, metadata |-> load.metadata]]
  /\ epc' = [epc EXCEPT ![p] = "seed"]
  /\ UNCHANGED <<entities, existing, eid, before>>

\* The ingest_entity call of seed_entities, to the end of its own
\* existing = get_entity_by_name(name).
SeedIngestStart(p) ==
  /\ epc[p] = "seed"
  /\ \E row \in get_entity_by_name(entities, eargs[p].name) :
       /\ existing' = [existing EXCEPT ![p] = row]
       /\ eid' = [eid EXCEPT ![p] = row.id]
       /\ epc' = [epc EXCEPT ![p] = IF row # NoEntity THEN "found" ELSE "insert"]
  /\ before' = [before EXCEPT ![p] = entities]
  /\ UNCHANGED <<entities, eargs, ingests>>

----------------------------------------------------------------------------
(* Open loops.                                                             *)

\* Rows the open_loops table is given in one behaviour.
MaxLoops == 2

\* The summaries callers give their loops.
LoopSummaries == {"call mom", "Ship it"}

\* priority of add_open_loop.
Priorities == {"high", "medium", "low"}

\* The priorities callers send: POST /loops takes any string.
CallerPriorities == Priorities \cup {"urgent"}

\* limit of get_open_loops (GET /loops?limit=, cortex loops --limit).
Limits == {0, 1, 2}

VARIABLES
  open_loops,   \* table open_loops, in insertion (rowid) order: rows [id,
                \*   summary, priority, created_at, resolved_at]
  loopsAdded,   \* add_open_loop calls made so far: the ids given out
  listing,      \* the latest get_open_loops call: its limit and its result
  lcall         \* the latest add_open_loop call: its priority and how it ended

loopVars == <<open_loops, loopsAdded, listing, lcall>>

\* The check of open_loops.priority in the schema: an INSERT with any other
\* priority raises.
LoopPriorityOK(priority) == priority \in Priorities

\* The schema's default for open_loops.created_at (the INSERT of
\* add_open_loop gives no created_at).
loop_created_at_default(t) == CURRENT_TIMESTAMP(t)

\* add_open_loop: INSERT INTO open_loops (id, summary, priority, ...);
\* resolved_at stays NULL.
add_open_loop(rows, id, summary, priority, t) ==
  Append(rows, [id |-> id, summary |-> summary, priority |-> priority,
                created_at |-> loop_created_at_default(t), resolved_at |-> NULL])

\* resolve_loop: UPDATE open_loops SET resolved_at = CURRENT_TIMESTAMP
\* WHERE id = ?
resolve_loop(rows, loop_id, t) ==
  [i \in 1..Len(rows) |->
     IF rows[i].id = loop_id
       THEN [rows[i] EXCEPT !.resolved_at = CURRENT_TIMESTAMP(t)]
       ELSE rows[i]]

\* delete_loop: DELETE FROM open_loops WHERE id = ?
delete_loop(rows, loop_id) == SelectSeq(rows, LAMBDA r : r.id # loop_id)

\* CASE priority WHEN 'high' THEN 1 WHEN 'medium' THEN 2 WHEN 'low' THEN 3 END
PriorityRank(priority) ==
  CASE priority = "high" -> 1
    [] priority = "medium" -> 2
    [] priority = "low" -> 3

\* ORDER BY CASE priority ... END, created_at DESC: row a may stand before
\* row b.
LoopOrder(a, b) ==
  \/ PriorityRank(a.priority) < PriorityRank(b.priority)
  \/ /\ PriorityRank(a.priority) = PriorityRank(b.priority)
     /\ a.created_at >= b.created_at

\* WHERE resolved_at IS NULL
UnresolvedLoops(rows) == SelectSeq(rows, LAMBDA r : r.resolved_at = NULL)

\* LIMIT ?: the first n rows; a negative limit is no limit.
Limit(seq, n) ==
  IF n < 0 \/ n >= Len(seq) THEN seq ELSE SubSeq(seq, 1, n)

\* ORDER BY ...: row a stands before row b in every order the query may give.
LoopBefore(a, b) ==
  \/ PriorityRank(a.priority) < PriorityRank(b.priority)
  \/ /\ PriorityRank(a.priority) = PriorityRank(b.priority)
     /\ a.created_at > b.created_at

\* Two of the unresolved rows share priority and created_at.
LoopsTied(open) ==
  Cardinality({<<open[i].priority, open[i].created_at>> : i \in 1..Len(open)}) < Len(open)

\* The place of each unresolved row in the order, when no two are tied: it
\* follows the rows that stand before it.
LoopPlaces(open) ==
  [j \in 1..Len(open) |->
     1 + Cardinality({k \in 1..Len(open) : LoopBefore(open[k], open[j])})]

LoopsInPlace(open, place) ==
  [i \in 1..Len(open) |-> open[CHOOSE j \in 1..Len(open) : place[j] = i]]

\* The unresolved rows in every order the ORDER BY allows, cut by LIMIT.
ListedLoops(open, limit) ==
  LET n == Len(open)
      orders == {f \in [1..n -> 1..n] :
                   /\ \A i, j \in 1..n : i # j => f[i] # f[j]
                   /\ \A i, j \in 1..n : i < j => LoopOrder(open[f[i]], open[f[j]])}
  IN  IF LoopsTied(open)
        THEN {Limit([i \in 1..n |-> open[f[i]]], limit) : f \in orders}
        ELSE {Limit(LoopsInPlace(open, place), limit) : place \in {LoopPlaces(open)}}

\* get_open_loops(limit): the results the query may give, one for every
\* order of the unresolved rows that the ORDER BY allows (rows with the
\* same priority and created_at come in an order SQL leaves open).
get_open_loops(rows, limit) ==
  UNION {ListedLoops(open, limit) : open \in {UnresolvedLoops(rows)}}

NoListing == [limit |-> NULL, rows |-> <<>>]

NoCall == [priority |-> "None", status |-> "None"]

InitLoops ==
  /\ open_loops = <<>>
  /\ loopsAdded = 0
  /\ listing = NoListing
  /\ lcall = NoCall

\* Rows the open_loops table of a store in long use holds.
MaxStoredLoops == 101

\* The table after n add_open_loop calls a second apart, the latest at the
\* epoch: row k is 'call mom' with the given priority, the others are
\* 'Ship it' with priority 'high'.
StoredLoopRows(n, k, priority) ==
  [i \in 1..n |->
     [id |-> i, summary |-> IF i = k THEN "call mom" ELSE "Ship it",
      priority |-> IF i = k THEN priority ELSE "high",
      created_at |-> i - n, resolved_at |-> NULL]]

\* A store in long use: all its loops are unresolved, and 'call mom' is the
\* oldest of them.
InitLoopsStored ==
  /\ \E n \in {MaxStoredLoops - 1, MaxStoredLoops}, priority \in {"high", "low"} :
       /\ open_loops = StoredLoopRows(n, 1, priority)
       /\ loopsAdded = n
  /\ listing = NoListing
  /\ lcall = NoCall

\* POST /loops: the INSERT of add_open_loop raises on a priority the schema
\* does not know, before the commit.
AddOpenLoop ==
  /\ loopsAdded < MaxLoops
  /\ \E summary \in LoopSummaries, priority \in CallerPriorities :
       IF LoopPriorityOK(priority)
         THEN /\ open_loops' = add_open_loop(open_loops, loopsAdded + 1, summary,
                                             priority, now)
              /\ loopsAdded' = loopsAdded + 1
              /\ lcall' = [priority |-> priority, status |-> "created"]
         ELSE /\ lcall' = [priority |-> priority, status |-> "raised"]
              /\ UNCHANGED <<open_loops, loopsAdded>>
  /\ UNCHANGED listing

\* POST /loops/{loop_id}/resolve, with any id.
ResolveLoop ==
  /\ \E loop_id \in 1..MaxLoops :
       open_loops' = resolve_loop(open_loops, loop_id, now)
  /\ UNCHANGED <<loopsAdded, listing, lcall>>

\* DELETE /loops/{loop_id}, with any id.
DeleteLoop ==
  /\ \E loop_id \in 1..MaxLoops :
       open_loops' = delete_loop(open_loops, loop_id)
  /\ UNCHANGED <<loopsAdded, listing, lcall>>

\* GET /loops
GetOpenLoops ==
  /\ \E limit \in Limits :
       \E result \in get_open_loops(open_loops, limit) :
         listing' = [limit |-> limit, rows |-> result]
  /\ UNCHANGED <<open_loops, loopsAdded, lcall>>

----------------------------------------------------------------------------
(* Memories, entity mentions and the Vector Mirror.  A text (a content, a   *)
(* LIKE prefix) is the sequence of its code points.                        *)

\* Rows the entity_mentions table is given in one behaviour.
MaxMentions == 2

\* Entity ids callers name in add_entity_mention and delete_entity.
MaxEntityIds == 2

\* "a", "Ab", and a text of 21 characters "bbb...b" (a = 97, A = 65, b = 98).
ShortA == <<97>>

ShortAb == <<65, 98>>

LongB == [i \in 1..21 |-> 98]

Contents == {ShortA, ShortAb, LongB}

\* content_prefix of delete_memories_by_content: "a", "ab", "_".
Prefixes == {<<97>>, <<97, 98>>, <<95>>}

\* What ingest_raw_memory is called with.
MemoryInputs ==
  { [content |-> ShortA,  memory_type |-> "observation", source |-> "None"],
    [content |-> ShortAb, memory_type |-> "fact",        source |-> "cli"] }

\* The types cortex remember offers (--type).
MemoryTypes ==
  {"conversation", "observation", "decision", "personality", "action_item", "fact"}

\* The inputs callers send: POST /memory takes any string as memory_type.
CallerMemoryInputs ==
  MemoryInputs \cup {[content |-> ShortA, memory_type |-> "note", source |-> "None"]}

\* Mutant: the schema takes any memory_type.
MemoryTypeOKAny(memory_type) == TRUE

\* The check of memories.memory_type in the schema: an INSERT with any other
\* type raises.
MemoryTypeOK(memory_type) == memory_type \in MemoryTypes

\* messages of ingest_conversation: lists of at most two of these.
Messages ==
  { [role |-> "user",      content |-> LongB],
    [role |-> "user",      content |-> ShortAb],
    [role |-> "assistant", content |-> LongB] }

MessageLists ==
  {<<>>} \cup {<<m>> : m \in Messages} \cup {<<m, n>> : m \in Messages, n \in Messages}

VARIABLES
  memory_cols,      \* table memories, the other columns: id -> [content,
                    \*   memory_type, source, created_at]
  memoriesAdded,    \* add_memory calls made so far: the ids given out
  entity_mentions,  \* table entity_mentions: rows [id, entity_id, memory_id]
  mentionsAdded,    \* rows inserted into entity_mentions so far
  conversations,    \* table conversations, in insertion order: rows [id,
                    \*   session_key, ended_at, analyzed]
  ipc,              \* the ingesting caller: "idle", "conv" (in the loop of
                    \* ingest_conversation), "vec" (between add_memory and
                    \* vec_add), "done", "raised"
  imid,             \* its local mid
  iinput,           \* the arguments of its ingest_raw_memory call
  imsgs,            \* the messages its ingest_conversation has still to look
                    \* at, and whether it is inside ingest_conversation
  vecFailed,        \* memory ids whose vector write failed (history)
  ememory           \* per caller of ingest_entity: its memory_id argument

mirVars == <<memory_cols, memoriesAdded, entity_mentions, mentionsAdded, entitiesDeleted,
             conversations, collection, ipc, imid, iinput, imsgs, vecFailed,
             ememory>>

\* add_memory: INSERT INTO memories (id, content, memory_type, source,
\* importance, metadata); archived takes the column default 0.
add_memory(mem, id, importance, is_protected) ==
  [m \in DOMAIN mem \cup {id} |->
     IF m = id
       THEN [importance |-> importance, decay_factor |-> NoFactor,
             protected |-> is_protected, archived |-> FALSE]
       ELSE mem[m]]

\* The other columns of the row add_memory inserts.
add_memory_cols(cols, id, input, t) ==
  [m \in DOMAIN cols \cup {id} |->
     IF m = id
       THEN [content |-> input.content, memory_type |-> input.memory_type,
             source |-> input.source, created_at |-> created_at_default(t)]
       ELSE cols[m]]

\* DELETE FROM <table> WHERE id IN ids, on a table kept as a function.
Without(f, ids) == [m \in DOMAIN f \ ids |-> f[m]]

\* SQLite's LIKE on one character: ASCII letters match in either case.
LikeChar(p, c) ==
  LET fold(x) == IF x >= 65 /\ x <= 90 THEN x + 32 ELSE x
  IN  fold(p) = fold(c)

\* content LIKE '<prefix>%', for a prefix without '%': '_' (95) matches any
\* one character, every other character matches itself up to ASCII case.
LikePrefix(prefix, text) ==
  /\ Len(prefix) <= Len(text)
  /\ \A i \in 1..Len(prefix) : prefix[i] = 95 \/ LikeChar(prefix[i], text[i])

\* The rows of entity_mentions that refer to rows that are not there: what
\* PRAGMA foreign_keys=ON makes a statement fail on.
Dangling(mentions, mem, ents) ==
  {r \in mentions :
     \/ r.memory_id \notin DOMAIN mem
     \/ r.entity_id \notin {ents[i].id : i \in 1..Len(ents)}}

\* Conversations one behaviour starts.
MaxConversations == 1

\* source or ""
SourceOrEmpty(source) == IF source = "None" THEN "" ELSE source

\* Mutant: the upsert writes nothing.
vec_addNothing(coll, memory_id, content, metadata) == coll

\* vec_add: collection.upsert(ids=[memory_id], documents=[content],
\* metadatas=[clean_meta]); the three values ingest_raw_memory passes are
\* scalars, which clean_meta keeps as they are.
vec_add(coll, memory_id, content, metadata) ==
  [m \in DOMAIN coll \cup {memory_id} |->
     IF m = memory_id THEN [document |-> content, metadata |-> metadata]
                      ELSE coll[m]]

\* The vector module's delete_memory: collection.delete(ids=[memory_id]).
vec_delete_memory(coll, memory_id) == Without(coll, {memory_id})

\* INSERT INTO conversations (id, session_key, channel); ended_at is NULL
\* and analyzed 0 until end_conversation and mark_analyzed.
start_conversation(rows) ==
  Append(rows, [id |-> new_id(rows), ended_at |-> NULL, analyzed |-> FALSE,
                summary |-> "None"])

\* msg.get("role") == "user" and msg.get("content") and len(msg["content"]) > 20
Qualifies(msg) ==
  msg.role = "user" /\ msg.content # <<>> /\ Len(msg.content) > 20

\* How many messages of a list ingest_conversation stores.
RECURSIVE CountQualifying(_)
CountQualifying(msgs) ==
  IF msgs = <<>> THEN 0
  ELSE (IF Qualifies(Head(msgs)) THEN 1 ELSE 0) + CountQualifying(Tail(msgs))

\* Mutant: the mentions of the memory are left in place.
delete_mentions_of_memoryKept(mentions, memory_id) == mentions

\* DELETE FROM entity_mentions WHERE memory_id = ?
delete_mentions_of_memory(mentions, memory_id) ==
  {r \in mentions : r.memory_id # memory_id}

\* DELETE FROM entity_mentions WHERE entity_id = ?
delete_mentions_of_entity(mentions, entity_id) ==
  {r \in mentions : r.entity_id # entity_id}

\* DELETE FROM entities WHERE id = ?
delete_entity_row(rows, entity_id) ==
  SelectSeq(rows, LAMBDA r : r.id # entity_id)

\* SELECT id FROM memories WHERE content LIKE '<prefix>%'
MatchingIds(cols, prefix) ==
  {m \in DOMAIN cols : LikePrefix(prefix, cols[m].content)}

\* for mid in mem_ids: DELETE FROM entity_mentions WHERE memory_id = ?
delete_mentions_of_memories(mentions, mem_ids) ==
  {r \in mentions : r.memory_id \notin mem_ids}

\* INSERT INTO entity_mentions (id, entity_id, memory_id, context)
insert_mention(mentions, id, entity_id, memory_id) ==
  mentions \cup {[id |-> id, entity_id |-> entity_id, memory_id |-> memory_id]}

\* UPDATE entities SET last_referenced = CURRENT_TIMESTAMP WHERE id = ?
touch_entity(rows, entity_id, t) ==
  [i \in 1..Len(rows) |->
     IF rows[i].id = entity_id
       THEN [rows[i] EXCEPT !.last_referenced = CURRENT_TIMESTAMP(t)]
       ELSE rows[i]]

NoInput == [content |-> <<>>, memory_type |-> "None", source |-> "None"]

NoMsgs == [inside |-> FALSE, cid |-> NULL, rest |-> <<>>]

\* The memories there are at the start were stored by ingest_raw_memory, and
\* their vector writes went through.
InitMirror ==
  /\ memory_cols = [m \in DOMAIN memories |->
                      [content |-> ShortA, memory_type |-> "observation",
                       source |-> "None", created_at |-> created_at_default(Epoch)]]
  /\ memoriesAdded = Cardinality(DOMAIN memories)
  /\ entity_mentions = {}
  /\ mentionsAdded = 0
  /\ entitiesDeleted = 0
  /\ conversations = <<>>
  /\ collection = [m \in DOMAIN memories |->
                     [document |-> ShortA,
                      metadata |-> [memory_type |-> "observation",
                                    importance |-> memories[m].importance,
                                    source |-> ""]]]
  /\ ipc = "idle"
  /\ imid = NULL
  /\ iinput = NoInput
  /\ imsgs = NoMsgs
  /\ vecFailed = {}
  /\ ememory = [p \in Ingesters |-> NULL]

\* mid = add_memory(content, memory_type, source, importance, metadata), with
\* the importance 0.5 and no "protected" in the metadata.
RawAddMemory(input) ==
  LET id == memoriesAdded + 1
  IN  /\ memoriesAdded < MaxMemories
      /\ memoriesAdded' = id
      /\ memories' = add_memory(memories, id, Rat(1, 2), FALSE)
      /\ memory_cols' = add_memory_cols(memory_cols, id, input, now)
      /\ imid' = id
      /\ iinput' = input
      /\ ipc' = "vec"

\* ingest_raw_memory, to the end of mid = add_memory(...): the INSERT raises
\* on a memory_type the schema does not know, before the commit and before
\* vec_add.
IngestRawMemory ==
  /\ ipc = "idle"
  /\ \E input \in CallerMemoryInputs :
       IF MemoryTypeOK(input.memory_type)
         THEN RawAddMemory(input)
         ELSE /\ ipc' = "raised"
              /\ iinput' = input
              /\ UNCHANGED <<memories, memory_cols, memoriesAdded, imid>>
  /\ UNCHANGED <<entity_mentions, mentionsAdded, entitiesDeleted, conversations,
                 collection, imsgs, vecFailed, ememory>>

\* vec_add(mid, content, {...}) succeeds; return mid.
IngestVecAdd ==
  /\ ipc = "vec"
  /\ collection' = vec_add(collection, imid, iinput.content,
                           [memory_type |-> iinput.memory_type,
                            importance |-> Rat(1, 2),
                            source |-> SourceOrEmpty(iinput.source)])
  /\ ipc' = IF imsgs.inside THEN "conv" ELSE "done"
  /\ UNCHANGED <<memories, memory_cols, memoriesAdded, entity_mentions,
                 mentionsAdded, entitiesDeleted, conversations, imid, iinput,
                 imsgs, vecFailed, ememory>>

\* Mutant: the failed vector write is compensated by deleting the row.
IngestVecFailRollback ==
  /\ ipc = "vec"
  /\ vecFailed' = vecFailed \cup {imid}
  /\ ipc' = "raised"
  /\ imsgs' = NoMsgs
  /\ memories' = Without(memories, {imid})
  /\ memory_cols' = Without(memory_cols, {imid})
  /\ UNCHANGED <<memoriesAdded, entity_mentions, mentionsAdded, entitiesDeleted,
                 conversations, collection, imid, iinput, ememory>>

\* vec_add raises: nothing catches it in ingest_raw_memory, ingest_conversation
\* or the service handlers, and the call ends with the exception.
IngestVecFail ==
  /\ ipc = "vec"
  /\ vecFailed' = vecFailed \cup {imid}
  /\ ipc' = "raised"
  /\ imsgs' = NoMsgs
  /\ UNCHANGED <<memories, memory_cols, memoriesAdded, entity_mentions,
                 mentionsAdded, entitiesDeleted, conversations, collection,
                 imid, iinput, ememory>>

\* ingest_conversation, to the end of cid = start_conversation(...).
IngestConversation ==
  /\ ipc = "idle"
  /\ Len(conversations) < MaxConversations
  /\ \E msgs \in MessageLists :
       /\ memoriesAdded + CountQualifying(msgs) <= MaxMemories
       /\ imsgs' = [inside |-> TRUE, cid |-> new_id(conversations), rest |-> msgs]
  /\ conversations' = start_conversation(conversations)
  /\ ipc' = "conv"
  /\ UNCHANGED <<memories, memory_cols, memoriesAdded, entity_mentions,
                 mentionsAdded, entitiesDeleted, collection, imid, iinput,
                 vecFailed, ememory>>

\* One turn of for msg in messages: a message that qualifies goes to
\* ingest_raw_memory, up to the end of its add_memory; any other is skipped.
IngestConversationMessage ==
  /\ ipc = "conv"
  /\ imsgs.rest # <<>>
  /\ imsgs' = [imsgs EXCEPT !.rest = Tail(imsgs.rest)]
  /\ IF Qualifies(Head(imsgs.rest))
       THEN RawAddMemory([content |-> Head(imsgs.rest).content,
                          memory_type |-> "conversation",
                          source |-> "conversation:" \o ToString(imsgs.cid)])
       ELSE UNCHANGED <<memories, memory_cols, memoriesAdded, imid, iinput, ipc>>
  /\ UNCHANGED <<entity_mentions, mentionsAdded, entitiesDeleted, conversations,
                 collection, vecFailed, ememory>>

\* The loop is over: return {"conversation_id": cid, "memory_ids": memory_ids}.
IngestConversationReturn ==
  /\ ipc = "conv"
  /\ imsgs.rest = <<>>
  /\ imsgs' = NoMsgs
  /\ ipc' = "done"
  /\ UNCHANGED <<memories, memory_cols, memoriesAdded, entity_mentions,
                 mentionsAdded, entitiesDeleted, conversations, collection,
                 imid, iinput, vecFailed, ememory>>

\* The caller has its answer, or its exception.
IngestDone ==
  /\ ipc \in {"done", "raised"}
  /\ ipc' = "idle"
  /\ imid' = NULL
  /\ iinput' = NoInput
  /\ UNCHANGED <<memories, memory_cols, memoriesAdded, entity_mentions,
                 mentionsAdded, entitiesDeleted, conversations, collection,
                 imsgs, vecFailed, ememory>>

\* DELETE /memory/{memory_id}: get_memory, 404 when there is no such row,
\* else the store's delete_memory: the mentions of the memory go, then its
\* row.  Nothing here calls the vector module.
DeleteMemoryEndpoint(memory_id) ==
  /\ IF memory_id \in DOMAIN memories
       THEN /\ entity_mentions' = delete_mentions_of_memory(entity_mentions, memory_id)
            /\ memories' = Without(memories, {memory_id})
            /\ memory_cols' = Without(memory_cols, {memory_id})
       ELSE UNCHANGED <<entity_mentions, memories, memory_cols>>
  /\ UNCHANGED <<memoriesAdded, mentionsAdded, entitiesDeleted, conversations,
                 collection, ipc, imid, iinput, imsgs, vecFailed, ememory>>

\* delete_memories_by_content(content_prefix), one transaction: the ids that
\* match, their mentions, then the rows that match.
DeleteMemoriesByContent(content_prefix) ==
  LET mem_ids == MatchingIds(memory_cols, content_prefix)
  IN  /\ entity_mentions' = delete_mentions_of_memories(entity_mentions, mem_ids)
      /\ memories' = Without(memories, MatchingIds(memory_cols, content_prefix))
      /\ memory_cols' = Without(memory_cols, MatchingIds(memory_cols, content_prefix))
      /\ UNCHANGED <<memoriesAdded, mentionsAdded, entitiesDeleted, conversations,
                     collection, ipc, imid, iinput, imsgs, vecFailed, ememory>>

\* The foreign keys of entity_mentions, which get_db switches on with
\* PRAGMA foreign_keys=ON: an INSERT that names an entity or a memory that is
\* not there fails with IntegrityError.
ForeignKeysOK(mentions, mem, ents) == Dangling(mentions, mem, ents) = {}

\* ingest_entity(name, ..., memory_id=...), to the end of existing =
\* get_entity_by_name(name): memory_id is None or the id of a memory.
IngestEntityStart(p) ==
  /\ IngestStart(p)
  /\ \E m \in {NULL} \cup (1..MaxMemories) :
       /\ m # NULL =>
            mentionsAdded + Cardinality({q \in Ingesters : ememory[q] # NULL})
              < MaxMentions
       /\ ememory' = [ememory EXCEPT ![p] = m]
  /\ UNCHANGED <<memory_cols, memoriesAdded, entity_mentions, mentionsAdded,
                 entitiesDeleted, conversations, collection, ipc, imid, iinput,
                 imsgs, vecFailed>>

\* if memory_id: add_entity_mention(eid, memory_id, mention_context), then
\* return eid.  The INSERT fails when the entity or the memory is gone, and
\* the connection is dropped with nothing committed.
IngestMention(p) ==
  /\ epc[p] = "done"
  /\ ememory[p] # NULL
  /\ LET inserted == insert_mention(entity_mentions, mentionsAdded + 1,
                                    eid[p], ememory[p])
     IN  IF ForeignKeysOK(inserted, memories, entities)
           THEN /\ entity_mentions' = inserted
                /\ mentionsAdded' = mentionsAdded + 1
                /\ entities' = touch_entity(entities, eid[p], now)
           ELSE UNCHANGED <<entity_mentions, mentionsAdded, entities>>
  /\ ememory' = [ememory EXCEPT ![p] = NULL]
  /\ epc' = [epc EXCEPT ![p] = "idle"]
  /\ UNCHANGED <<eargs, existing, eid, before, ingests>>
  /\ UNCHANGED <<memory_cols, memoriesAdded, entitiesDeleted, conversations,
                 collection, ipc, imid, iinput, imsgs, vecFailed>>

\* memory_id is None: return eid.
IngestReturnPlain(p) ==
  /\ ememory[p] = NULL
  /\ IngestReturn(p)
  /\ UNCHANGED mirVars

\* delete_entity(entity_id), DELETE /entity/{entity_id}: the mentions of the
\* entity go, then its row.
DeleteEntity(entity_id) ==
  /\ entity_mentions' = delete_mentions_of_entity(entity_mentions, entity_id)
  /\ entities' = delete_entity_row(entities, entity_id)
  /\ entitiesDeleted' = entitiesDeleted + (Len(entities) - Len(delete_entity_row(entities, entity_id)))
  /\ UNCHANGED <<epc, eargs, existing, eid, before, ingests>>
  /\ UNCHANGED <<memory_cols, memoriesAdded, mentionsAdded, conversations,
                 collection, ipc, imid, iinput, imsgs, vecFailed, ememory>>

\* The distances the embedding gives between a query and a document, as far
\* as the model tells them apart.
Distances == {0, 1}

\* max_distance=None
NoMaxDistance == NULL

\* memory_type=None, min_importance=None
NoType == "None"

NoMin == <<>>

\* The orders ORDER BY created_at DESC allows for the rows with these ids:
\* rows of the same second come in an order SQL leaves open.
NewestFirst(ids, cols) ==
  LET n == Cardinality(ids)
  IN  {f \in [1..n -> ids] :
         /\ \A i, j \in 1..n : i # j => f[i] # f[j]
         /\ \A i, j \in 1..n : i < j => cols[f[i]].created_at >= cols[f[j]].created_at}

\* recent_memories(limit): SELECT * FROM memories WHERE archived = 0
\* ORDER BY created_at DESC LIMIT ?; the ids, in every order the query may
\* give.
recent_memories(mem, cols, limit) ==
  {Limit(f, limit) : f \in NewestFirst({m \in DOMAIN mem : ~mem[m].archived}, cols)}

\* search_memories(memory_type, min_importance, limit, include_archived)
search_memories(mem, cols, memory_type, min_importance, limit, include_archived) ==
  LET hit(m) == /\ include_archived \/ ~mem[m].archived
                /\ memory_type \in {NoType, ""} \/ cols[m].memory_type = memory_type
                /\ min_importance = NoMin \/ ~Less(mem[m].importance, min_importance)
  IN  {Limit(f, limit) : f \in NewestFirst({m \in DOMAIN mem : hit(m)}, cols)}

\* n_results of search that callers give (POST /search, cortex search
\* --limit).
MaxResults == 2

\* collection.query(query_texts=[query], n_results=n): the n records nearest
\* to the query, nearest first, with their distances; the answers, for every
\* distance the embedding may give each record.
collection_query(coll, n) ==
  LET nearest(dist) ==
        {f \in [1..n -> DOMAIN coll] :
           /\ \A i, j \in 1..n : i # j => f[i] # f[j]
           /\ \A i, j \in 1..n : i < j => dist[f[i]] <= dist[f[j]]
           /\ \A m \in DOMAIN coll :
                (\A i \in 1..n : f[i] # m) => \A i \in 1..n : dist[f[i]] <= dist[m]}
      hits(f, dist) ==
        [i \in 1..n |-> [id |-> f[i], content |-> coll[f[i]].document,
                         distance |-> dist[f[i]], metadata |-> coll[f[i]].metadata]]
  IN  UNION {{hits(f, dist) : f \in nearest(dist)} : dist \in [DOMAIN coll -> Distances]}

\* Mutant: a record at exactly max_distance is dropped too.
within_max_distanceStrict(hits, max_distance) ==
  SelectSeq(hits, LAMBDA h : max_distance = NoMaxDistance \/ h.distance < max_distance)

\* if max_distance is not None and distance is not None and distance >
\* max_distance: continue -- the loop over the answer keeps the other records,
\* in the answer's order.
within_max_distance(hits, max_distance) ==
  SelectSeq(hits, LAMBDA h : max_distance = NoMaxDistance \/ ~(h.distance > max_distance))

\* The vector module's search(query, n_results, where=None, max_distance):
\* [] on an empty collection; else the min(n_results, count) records nearest
\* to the query, nearest first, less those farther than max_distance.  The
\* results, for every distance the embedding may give each record.
search(coll, query, n_results, max_distance) ==
  IF DOMAIN coll = {} THEN {<<>>}
  ELSE
    LET count == Cardinality(DOMAIN coll)
        n == IF n_results < count THEN n_results ELSE count
    IN  {within_max_distance(top, max_distance) : top \in collection_query(coll, n)}

VARIABLES
  searched,  \* the latest search call: its n_results and max_distance, the
             \*   count of the collection, the collection's answer (history)
             \*   and the list the call returned
  built,     \* the latest fallback payload: its source, the loops and the
             \*   memories its prompt lists, in the prompt's order
  extracted  \* the latest extract_entity_names call: its text, its
             \*   seed_entities, how it ended and the list it returned

searchVars == <<searched, built, extracted>>

NoSearch == [n_results |-> NULL, max_distance |-> NoMaxDistance, count |-> NULL,
             top |-> <<>>, result |-> <<>>]

NoPayload == [source |-> "none", loops |-> <<>>, memories |-> <<>>]

\* No extract_entity_names call yet.
NoExtract == [text |-> <<>>, seed_entities |-> <<>>, status |-> "none", found |-> <<>>]

InitSearch == searched = NoSearch /\ built = NoPayload /\ extracted = NoExtract

\* POST /search, cortex search: search(query, n_results, max_distance=...).
Search ==
  /\ \E n_results \in 1..MaxResults, max_distance \in {NoMaxDistance} \cup Distances :
       LET count == Cardinality(DOMAIN collection)
           n == IF n_results < count THEN n_results ELSE count
       IN  IF count = 0
             THEN searched' = [n_results |-> n_results, max_distance |-> max_distance,
                               count |-> count, top |-> <<>>, result |-> <<>>]
             ELSE \E top \in collection_query(collection, n) :
                    searched' = [n_results |-> n_results, max_distance |-> max_distance,
                                 count |-> count, top |-> top,
                                 result |-> within_max_distance(top, max_distance)]
  /\ UNCHANGED <<collection, built, extracted>>

\* build_fallback_context(): loops = get_open_loops(5), memories =
\* recent_memories(20) and of these memories[:10]; the payloads it may
\* return, by the loops and the memories (ids) its prompt lists.
build_fallback_context(loops, mem, cols) ==
  {[source |-> "fallback", loops |-> listed, memories |-> Limit(recent, 10)] :
     listed \in get_open_loops(loops, 5), recent \in recent_memories(mem, cols, 20)}

\* get_prepared_context(fallback=True) when get_unused_context() finds no
\* row: return build_fallback_context().
FallbackContext ==
  /\ get_unused_context(prepared_contexts, now) = {NULL}
  /\ built' \in build_fallback_context(open_loops, memories, memory_cols)
  /\ UNCHANGED <<searched, extracted, prepared_contexts, open_loops, memories, memory_cols>>

\* pipeline/entities.py: extract_entity_names.

\* Entities on record and entries of the seed list in one behaviour.
MaxRecorded == 2

MaxSeeds == 1

\* "Ann L", "Ann R", "Al B" and "": space = 32, B = 66, L = 76, R = 82,
\* n = 110.
AnnL == <<65, 110, 110, 32, 76>>

AnnR == <<65, 110, 110, 32, 82>>

AlB == <<65, 108, 32, 66>>

\* The names of the entities on record, and those of the seed list: an
\* entry of seed_entities.yaml without a "name" reads as "" (e.get("name",
\* "")).
RecordedNames == {AnnL, AnnR, AlB}

SeedNames == {AnnR, AlB, <<>>}

SeedLists == UNION {[1..n -> [name : SeedNames]] : n \in 0..MaxSeeds}

\* The texts: "ANN", "ann r", "al" and "Hi Al B" (H = 72, i = 105).
Texts == { <<65, 78, 78>>, <<97, 110, 110, 32, 114>>, <<97, 108>>,
           <<72, 105, 32, 65, 108, 32, 66>> }

\* The entities tables of a store that ingest_entity was called on with up
\* to MaxRecorded names of RecordedNames, all within the first second.
RecordedTables ==
  {<<>>}
    \cup UNION {{[i \in 1..n |->
                   [id |-> i, name |-> f[i], entity_type |-> "person",
                    summary |-> NoSummary, metadata |-> json_dumps(<<>>),
                    last_referenced |-> created_at_default(Epoch)]] :
                  f \in {g \in [1..n -> RecordedNames] :
                           \A i, j \in 1..n : i # j => g[i] # g[j]}} :
                n \in 1..MaxRecorded}

InitEntityRecorded ==
  /\ entities \in RecordedTables
  /\ epc = [p \in Ingesters |-> "idle"]
  /\ eargs = [p \in Ingesters |-> NoEntityArgs]
  /\ existing = [p \in Ingesters |-> NoEntity]
  /\ eid = [p \in Ingesters |-> NULL]
  /\ before = [p \in Ingesters |-> <<>>]
  /\ ingests = 0

\* list_entities(): SELECT * FROM entities ORDER BY last_referenced DESC, in
\* every order the ORDER BY allows.
list_entities(rows) ==
  LET n == Len(rows)
      orders == {f \in [1..n -> 1..n] :
                   /\ \A i, j \in 1..n : i # j => f[i] # f[j]
                   /\ \A i, j \in 1..n :
                        i < j => rows[f[i]].last_referenced >= rows[f[j]].last_referenced}
  IN  {[i \in 1..n |-> rows[f[i]]] : f \in orders}

\* Whitespace for str.split(): space, tab, line feed, carriage return.
IsSpace(c) == c \in {32, 9, 10, 13}

\* str.split(): the runs of characters between whitespace.
RECURSIVE split(_)
split(str) ==
  IF str = <<>> THEN <<>>
  ELSE IF IsSpace(str[1]) THEN split(Tail(str))
  ELSE LET ends == {i \in 1..Len(str) : IsSpace(str[i])}
           stop == IF ends = {} THEN Len(str) + 1
                   ELSE CHOOSE i \in ends : \A j \in ends : i <= j
       IN  <<SubSeq(str, 1, stop - 1)>> \o split(SubSeq(str, stop, Len(str)))

\* key in text_lower, on strings: key is a substring of text.
Contains(key, text) ==
  \E i \in 0..(Len(text) - Len(key)) : SubSeq(text, i + 1, i + Len(key)) = key

\* known[name.lower()] = name; first = name.split()[0].lower();
\* if len(first) > 2: known[first] = name.  (name has a token.)
known_put(known, name) ==
  LET first == lower(split(name)[1])
      full == dict_update(known, << <<lower(name), name>> >>)
  IN  IF Len(first) > 2 THEN dict_update(full, << <<first, name>> >>) ELSE full

\* The two for loops that fill known, over the names in their order.
RECURSIVE known_from(_, _)
known_from(known, names) ==
  IF names = <<>> THEN known
  ELSE known_from(known_put(known, Head(names)), Tail(names))

\* for key, name in known.items(): if key in text_lower and name not in
\* found: found.append(name)
RECURSIVE collect_found(_, _, _)
collect_found(items, text_lower, found) ==
  IF items = <<>> THEN found
  ELSE LET key == Head(items)[1]
           name == Head(items)[2]
           hit == /\ Contains(key, text_lower)
                  /\ \A i \in 1..Len(found) : found[i] # name
       IN  collect_found(Tail(items), text_lower,
                         IF hit THEN Append(found, name) ELSE found)

\* extract_entity_names(text, seed_entities) on the rows list_entities gave:
\* name.split()[0] raises IndexError on a name without a token, and nothing
\* catches it.
extract_entity_names(text, seed_entities, listed) ==
  LET names == [i \in 1..Len(seed_entities) |-> seed_entities[i].name]
                 \o [i \in 1..Len(listed) |-> listed[i].name]
  IN  IF \E i \in 1..Len(names) : split(names[i]) = <<>>
        THEN [status |-> "raised", found |-> <<>>]
        ELSE [status |-> "returned",
              found |-> collect_found(known_from(<<>>, names), lower(text), <<>>)]

\* A call of extract_entity_names with a seed list.
ExtractEntityNames ==
  /\ \E text \in Texts, seed_entities \in SeedLists :
       \E listed \in list_entities(entities) :
         LET out == extract_entity_names(text, seed_entities, listed)
         IN  extracted' = [text |-> text, seed_entities |-> seed_entities,
                           status |-> out.status, found |-> out.found]
  /\ UNCHANGED <<searched, built, entities>>

\* The decay variables other than the table itself.
decayLocals == <<dpc, dargs, drows, idx, decayed, will_archive, protected, last,
                 runs, protectCalls>>

\* An empty memories table and no decay run.
InitDecayEmpty ==
  /\ memories = << >>
  /\ dpc = [r \in Runners |-> "idle"]
  /\ dargs = [r \in Runners |-> NoDecayArgs]
  /\ drows = [r \in Runners |-> <<>>]
  /\ idx = [r \in Runners |-> 0]
  /\ decayed = [r \in Runners |-> <<>>]
  /\ will_archive = [r \in Runners |-> <<>>]
  /\ protected = [r \in Runners |-> <<>>]
  /\ last = NoRun
  /\ runs = 0
  /\ protectCalls = 0

----------------------------------------------------------------------------
(* Post-session analysis: run_analysis.                                    *)

\* run_analysis calls one behaviour makes.
MaxAnalyses == 1

\* Open loops one answer of the model proposes.
MaxProposals == 2

\* The summaries the model proposes: those of LoopSummaries and one no loop
\* ever had.
ProposalSummaries == LoopSummaries \cup {"buy milk"}

Proposals == [summary : ProposalSummaries, priority : {"high"}]

ProposalLists == UNION {[1..n -> Proposals] : n \in 0..MaxProposals}

\* A conversation_id a caller supplies (POST /analyze, cortex analyze
\* --conversation-id) that no row of conversations has.
NoSuchId == 0

\* What call_llm does: the provider raises (no client library, unknown
\* provider, network error, timeout), or json.loads in _parse_json raises on
\* the text ("unparseable"), or the parsed answer is returned, which is falsy
\* ("empty": {}, [], null, 0, ""), or true and no dict ("nondict": a list, a
\* string, a number), or a dict with "context_summary" and "open_loops".
ModelResults ==
  {[kind |-> k, open_loops |-> <<>>] : k \in {"raise", "unparseable", "empty", "nondict"}}
    \cup {[kind |-> "dict", open_loops |-> ps] : ps \in ProposalLists}

NoResult == [kind |-> "None", open_loops |-> <<>>]

\* str.upper() on the summaries of the model.
upper(summary) ==
  CASE summary = "call mom" -> "CALL MOM"
    [] summary = "Ship it"  -> "SHIP IT"
    [] summary = "buy milk" -> "BUY MILK"

VARIABLES
  apc,               \* run_analysis: "idle", "llm", "reconcile",
                     \* "conversation", "save", "mark"
  aconv,             \* its conversation_id
  aresult,           \* its result, the answer of the model
  akept,             \* result["open_loops"] after the reconciliation
  aprompt,           \* its prepared_prompt
  aread,             \* the summaries of the loops that were unresolved when
                     \* it read the loops (history)
  abefore,           \* prepared_contexts and conversations as they were
                     \* when its latest call began (history)
  areturn,           \* how its latest call ended: "running", "error" (the
                     \* dict {"error": str(e)}), "None", "result" (the dict
                     \* with the context_id), "raised" (an exception left
                     \* it); "" before the first call
  analyses,          \* run_analysis calls made so far
  context_payloads,  \* table prepared_contexts, the payload columns of the
                     \* rows run_analysis wrote: id -> [conversation_id,
                     \*   open_loops_json, prepared_prompt]
  readAt             \* per prepared context of run_analysis: aread of the
                     \* call that wrote it (history)

anVars == <<apc, aconv, aresult, akept, aprompt, aread, abefore, areturn, analyses,
            context_payloads, readAt>>

\* current_open_loop_summaries = {l["summary"] for l in get_open_loops(100)}
open_loop_summaries(listed) == {listed[i].summary : i \in 1..Len(listed)}

\* Mutant: every proposed loop is kept.
reconcileKeepAll(proposed, summaries) == proposed

\* [loop for loop in result.get("open_loops", [])
\*  if loop.get("summary") in current_open_loop_summaries]
reconcile(proposed, summaries) ==
  SelectSeq(proposed, LAMBDA loop : loop.summary \in summaries)

\* build_prepared_prompt, as the list of its lines: the heading and one line
\* per loop with the upper-cased summary and the priority when there are
\* loops, then the context summary.  The model's answers carry no follow-up
\* question, priority topics, topic index or selected memories.
build_prepared_prompt(loops, context_summary) ==
  (IF loops = <<>> THEN <<>>
   ELSE <<[line |-> "OPEN LOOPS", summary |-> "", priority |-> ""]>>
          \o [i \in 1..Len(loops) |->
                [line |-> "loop", summary |-> upper(loops[i].summary),
                 priority |-> loops[i].priority]]
          \o <<[line |-> "", summary |-> "", priority |-> ""]>>)
  \o (IF context_summary = "" THEN <<>>
      ELSE <<[line |-> "KEY CONTEXT", summary |-> "", priority |-> ""],
             [line |-> context_summary, summary |-> "", priority |-> ""],
             [line |-> "", summary |-> "", priority |-> ""]>>)

\* json.dumps(open_loops_json): each loop as the list of its key-value pairs.
dumps_loops(loops) ==
  [i \in 1..Len(loops) |->
     << <<"summary", loops[i].summary>>, <<"priority", loops[i].priority>> >>]

\* json.loads of that text.
loads_loops(text) ==
  [i \in 1..Len(text) |-> [summary |-> text[i][1][2], priority |-> text[i][2][2]]]

\* end_conversation: UPDATE conversations SET ended_at = CURRENT_TIMESTAMP,
\* summary = ? WHERE id = ?
end_conversation(rows, conversation_id, summary, t) ==
  [i \in 1..Len(rows) |->
     IF rows[i].id = conversation_id
       THEN [rows[i] EXCEPT !.ended_at = CURRENT_TIMESTAMP(t), !.summary = summary]
       ELSE rows[i]]

\* mark_analyzed: UPDATE conversations SET analyzed = 1 WHERE id = ?
mark_analyzed(rows, conversation_id) ==
  [i \in 1..Len(rows) |->
     IF rows[i].id = conversation_id THEN [rows[i] EXCEPT !.analyzed = TRUE]
                                     ELSE rows[i]]

\* The context_summary of the model's answers.
ContextSummary == "where things left off"

InitAnalysis ==
  /\ apc = "idle"
  /\ aconv = NULL
  /\ aresult = NoResult
  /\ akept = <<>>
  /\ aprompt = <<>>
  /\ aread = {}
  /\ abefore = [prepared_contexts |-> prepared_contexts, conversations |-> conversations]
  /\ areturn = ""
  /\ analyses = 0
  /\ context_payloads = << >>
  /\ readAt = << >>

\* run_analysis(conversation_text, conversation_id): build_analysis_input
\* reads the memories and the loops for the prompt, then the model is called.
AnalyzeStart ==
  /\ apc = "idle"
  /\ analyses < MaxAnalyses
  /\ analyses' = analyses + 1
  /\ \E conversation_id \in {NULL, NoSuchId}
                             \cup {conversations[i].id : i \in 1..Len(conversations)} :
       aconv' = conversation_id
  /\ apc' = "llm"
  /\ areturn' = "running"
  /\ aresult' = NoResult
  /\ abefore' = [prepared_contexts |-> prepared_contexts, conversations |-> conversations]
  /\ UNCHANGED <<akept, aprompt, aread, context_payloads, readAt>>
  /\ UNCHANGED <<prepared_contexts, conversations, now>>

\* Mutant: an answer that cannot be parsed leaves run_analysis as an exception.
after_call_llmParseCrash(kind) ==
  CASE kind = "raise" -> "error"
    [] kind = "unparseable" -> "raised"
    [] kind = "empty" -> "None"
    [] OTHER -> "running"

\* try: result = call_llm(...) / except Exception as e: return {"error":
\* str(e)}; if not result: return None.  How the call stands after these
\* lines, by what call_llm did.
after_call_llm(kind) ==
  CASE kind \in {"raise", "unparseable"} -> "error"
    [] kind = "empty" -> "None"
    [] OTHER -> "running"

\* Mutant: the conversation is created before the model is called.
AnalyzeModelConversationFirst ==
  /\ apc = "llm"
  /\ \E result \in ModelResults :
       /\ aresult' = result
       /\ areturn' = after_call_llm(result.kind)
       /\ apc' = IF after_call_llm(result.kind) = "running" THEN "reconcile" ELSE "idle"
  /\ conversations' = IF aconv = NULL THEN start_conversation(conversations)
                                      ELSE conversations
  /\ UNCHANGED <<aconv, akept, aprompt, aread, abefore, analyses, context_payloads, readAt>>
  /\ UNCHANGED <<prepared_contexts, now>>

\* result = call_llm(prompt), the except clause and the test of the result.
AnalyzeModel ==
  /\ apc = "llm"
  /\ \E result \in ModelResults :
       /\ aresult' = result
       /\ areturn' = after_call_llm(result.kind)
       /\ apc' = IF after_call_llm(result.kind) = "running" THEN "reconcile" ELSE "idle"
  /\ UNCHANGED <<aconv, akept, aprompt, aread, abefore, analyses, context_payloads, readAt>>
  /\ UNCHANGED <<prepared_contexts, conversations, now>>

\* The loops are read again and the proposed loops filtered against them;
\* the prompt is rendered from what is kept.  On a result that is no dict,
\* result.get raises AttributeError after the read, and nothing catches it.
AnalyzeReconcile ==
  /\ apc = "reconcile"
  /\ IF aresult.kind = "dict"
       THEN /\ \E listed \in get_open_loops(open_loops, 100) :
                 LET kept == reconcile(aresult.open_loops, open_loop_summaries(listed))
                 IN  /\ akept' = kept
                     /\ aprompt' = build_prepared_prompt(kept, ContextSummary)
            /\ aread' = {r.summary : r \in {open_loops[i] : i \in
                           {k \in 1..Len(open_loops) : open_loops[k].resolved_at = NULL}}}
            /\ apc' = IF aconv = NULL THEN "conversation" ELSE "save"
            /\ UNCHANGED areturn
       ELSE /\ areturn' = "raised"
            /\ apc' = "idle"
            /\ UNCHANGED <<akept, aprompt, aread>>
  /\ UNCHANGED <<aconv, aresult, abefore, analyses, context_payloads, readAt>>
  /\ UNCHANGED <<prepared_contexts, conversations, now>>

\* if not conversation_id: conversation_id = start_conversation("manual",
\* "cli"); end_conversation(conversation_id, result.get("context_summary"))
AnalyzeConversation ==
  /\ apc = "conversation"
  /\ aconv' = new_id(conversations)
  /\ conversations' = end_conversation(start_conversation(conversations),
                                       new_id(conversations), ContextSummary, now)
  /\ apc' = "save"
  /\ UNCHANGED <<aresult, akept, aprompt, aread, abefore, areturn, analyses, context_payloads, readAt>>
  /\ UNCHANGED <<prepared_contexts, now>>

\* The conversation_id column of prepared_contexts refers to conversations(id),
\* and get_db switches foreign keys on: the INSERT of a context goes through
\* when the conversation has a row.
ConversationExists(rows, conversation_id) ==
  \E i \in 1..Len(rows) : rows[i].id = conversation_id

\* Mutant: the context is inserted whatever its conversation_id.
AnalyzeSaveUnchecked ==
  /\ apc = "save"
  /\ prepared_contexts' = save_prepared_context(prepared_contexts, now, 1)
  /\ context_payloads' =
       [i \in DOMAIN context_payloads \cup {new_id(prepared_contexts)} |->
          IF i = new_id(prepared_contexts)
            THEN [conversation_id |-> aconv, open_loops_json |-> dumps_loops(akept),
                  prepared_prompt |-> aprompt]
            ELSE context_payloads[i]]
  /\ readAt' = [i \in DOMAIN readAt \cup {new_id(prepared_contexts)} |->
                  IF i = new_id(prepared_contexts) THEN aread ELSE readAt[i]]
  /\ apc' = "mark"
  /\ UNCHANGED <<aconv, aresult, akept, aprompt, aread, abefore, areturn, analyses>>
  /\ UNCHANGED <<conversations, now>>

\* Mutant: the conversation is marked analyzed first, with the context not
\* yet saved.
AnalyzeSaveMarkFirst ==
  /\ apc = "save"
  /\ conversations' = mark_analyzed(conversations, aconv)
  /\ apc' = "mark"
  /\ UNCHANGED <<aconv, aresult, akept, aprompt, aread, abefore, areturn, analyses,
                 context_payloads, readAt>>
  /\ UNCHANGED <<prepared_contexts, now>>

\* context_id = save_prepared_context(...), with ttl_days at its default (a
\* day of the model's clock).  The INSERT of a context whose conversation has
\* no row raises, and the exception leaves run_analysis: nothing was written.
AnalyzeSave ==
  /\ apc = "save"
  /\ IF ConversationExists(conversations, aconv)
       THEN /\ prepared_contexts' = save_prepared_context(prepared_contexts, now, 1)
            /\ context_payloads' =
                 [i \in DOMAIN context_payloads \cup {new_id(prepared_contexts)} |->
                    IF i = new_id(prepared_contexts)
                      THEN [conversation_id |-> aconv,
                            open_loops_json |-> dumps_loops(akept),
                            prepared_prompt |-> aprompt]
                      ELSE context_payloads[i]]
            /\ readAt' = [i \in DOMAIN readAt \cup {new_id(prepared_contexts)} |->
                            IF i = new_id(prepared_contexts) THEN aread ELSE readAt[i]]
            /\ apc' = "mark"
            /\ UNCHANGED areturn
       ELSE /\ apc' = "idle"
            /\ areturn' = "raised"
            /\ UNCHANGED <<prepared_contexts, context_payloads, readAt>>
  /\ UNCHANGED <<aconv, aresult, akept, aprompt, aread, abefore, analyses>>
  /\ UNCHANGED <<conversations, now>>

\* if conversation_id: mark_analyzed(conversation_id); return {...}
AnalyzeMark ==
  /\ apc = "mark"
  /\ conversations' = mark_analyzed(conversations, aconv)
  /\ apc' = "idle"
  /\ aconv' = NULL
  /\ aresult' = NoResult
  /\ akept' = <<>>
  /\ aprompt' = <<>>
  /\ aread' = {}
  /\ areturn' = "result"
  /\ UNCHANGED <<abefore, analyses, context_payloads, readAt>>
  /\ UNCHANGED <<prepared_contexts, now>>

vars == <<ctxVars, decayVars, entVars, loopVars, mirVars, anVars, searchVars>>

\* Decay runs one after the other (one runner), with set_memory_protected
\* calls in between and during a run.
NextDecay ==
  \/ DecayStart("d1")
  \/ DecayRow("d1")
  \/ DecayReturn("d1")
  \/ SetMemoryProtected

StartDecay == InitCtx /\ InitDecay /\ InitEntity /\ InitLoops /\ InitMirror /\ InitAnalysis /\ InitSearch

SpecDecay ==
  StartDecay
    /\ [][NextDecay /\ UNCHANGED <<searchVars, ctxVars, entVars, loopVars, mirVars, anVars>>]_vars

NextCtx ==
  \/ Tick
  \/ SavePreparedContext
  \/ \E p \in Callers : GpcRead(p)
  \/ \E p \in Callers : GpcMark(p)
  \/ \E p \in Callers : Finish(p)

StartCtx == InitCtx /\ InitDecayIdle /\ InitEntity /\ InitLoops /\ InitMirror /\ InitAnalysis /\ InitSearch

SpecCtx ==
  StartCtx
    /\ [][NextCtx /\ UNCHANGED <<searchVars, decayVars, entVars, loopVars, mirVars, anVars>>]_vars

\* Calls of ingest_entity and entries of seed_entities one after the other
\* (one caller).
NextEntity ==
  \/ IngestStart("e1")
  \/ IngestSummary("e1")
  \/ IngestMetadata("e1")
  \/ IngestAdd("e1")
  \/ IngestReturn("e1")
  \/ SeedEntity("e1")
  \/ SeedIngestStart("e1")

StartEntity == InitCtx /\ InitDecayIdle /\ InitEntity /\ InitLoops /\ InitMirror /\ InitAnalysis /\ InitSearch

SpecEntity ==
  StartEntity
    /\ [][NextEntity /\ UNCHANGED <<searchVars, ctxVars, decayVars, loopVars, mirVars, anVars>>]_vars

\* Calls of ingest_entity that overlap (two callers), on a table that holds
\* one entity.
NextEntityRace ==
  \/ \E p \in Ingesters : IngestStart(p)
  \/ \E p \in Ingesters : IngestSummary(p)
  \/ \E p \in Ingesters : IngestMetadata(p)
  \/ \E p \in Ingesters : IngestAdd(p)
  \/ \E p \in Ingesters : IngestReturn(p)

StartEntityRace == InitCtx /\ InitDecayIdle /\ InitEntityOne /\ InitLoops /\ InitMirror /\ InitAnalysis /\ InitSearch

SpecEntityRace ==
  StartEntityRace
    /\ [][NextEntityRace /\ UNCHANGED <<searchVars, ctxVars, decayVars, loopVars, mirVars, anVars>>]_vars

\* The open loops alone, with the clock.
NextLoops ==
  \/ Tick /\ UNCHANGED loopVars
  \/ AddOpenLoop /\ lcall'.status = "created" /\ UNCHANGED ctxVars
  \/ ResolveLoop /\ UNCHANGED ctxVars
  \/ DeleteLoop /\ UNCHANGED ctxVars
  \/ GetOpenLoops /\ UNCHANGED ctxVars

StartLoops == InitCtx /\ InitDecayIdle /\ InitEntity /\ InitLoops /\ InitMirror /\ InitAnalysis /\ InitSearch

SpecLoops ==
  StartLoops
    /\ [][NextLoops /\ UNCHANGED <<searchVars, decayVars, entVars, mirVars, anVars>>]_vars

\* Memories are stored one at a time or from a conversation, with vector
\* writes that may fail, deleted by id or by prefix, and decayed by one
\* pass with the rate 1/2, the threshold 3/10 and dry_run=False.
NextMirror ==
  \/ IngestRawMemory /\ ipc' = "vec" /\ UNCHANGED decayLocals
  \/ IngestVecAdd /\ UNCHANGED decayLocals
  \/ IngestVecFail /\ UNCHANGED decayLocals
  \/ IngestConversation /\ UNCHANGED decayLocals
  \/ IngestConversationMessage /\ UNCHANGED decayLocals
  \/ IngestConversationReturn /\ UNCHANGED decayLocals
  \/ IngestDone /\ UNCHANGED decayLocals
  \/ \E m \in 1..MaxMemories : DeleteMemoryEndpoint(m) /\ UNCHANGED decayLocals
  \/ \E prefix \in Prefixes : DeleteMemoriesByContent(prefix) /\ UNCHANGED decayLocals
  \/ /\ runs = 0
     /\ DecayStart("d1")
     /\ dargs'["d1"].min_importance = Rat(3, 10)
     /\ ~dargs'["d1"].dry_run
     /\ UNCHANGED mirVars
  \/ DecayRow("d1") /\ UNCHANGED mirVars
  \/ DecayReturn("d1") /\ UNCHANGED mirVars

StartMirror == InitCtx /\ InitDecayEmpty /\ InitEntity /\ InitLoops /\ InitMirror /\ InitAnalysis /\ InitSearch

SpecMirror ==
  StartMirror /\ [][NextMirror /\ UNCHANGED <<searchVars, ctxVars, entVars, loopVars, anVars>>]_vars

\* Memories are stored and decayed by one runner.
NextArchive ==
  \/ IngestRawMemory /\ ipc' = "vec" /\ UNCHANGED decayLocals
  \/ IngestVecAdd /\ UNCHANGED decayLocals
  \/ IngestDone /\ UNCHANGED decayLocals
  \/ DecayStart("d1") /\ UNCHANGED mirVars
  \/ /\ DecayRow("d1")
     /\ UNCHANGED <<memory_cols, memoriesAdded, entity_mentions, mentionsAdded,
                    entitiesDeleted, conversations, ipc, imid, iinput, imsgs,
                    vecFailed, ememory>>
  \/ DecayReturn("d1") /\ UNCHANGED mirVars

StartArchive == InitCtx /\ InitDecayEmpty /\ InitEntity /\ InitLoops /\ InitMirror /\ InitAnalysis /\ InitSearch

SpecArchive ==
  StartArchive /\ [][NextArchive /\ UNCHANGED <<searchVars, ctxVars, entVars, loopVars, anVars>>]_vars

\* Memories are stored and deleted while entities are ingested with and
\* without a memory to mention (one caller, the names "Al" and "al", no
\* summary) and deleted.
NextMentions ==
  \/ IngestRawMemory /\ ipc' = "vec" /\ UNCHANGED <<decayLocals, entVars>>
  \/ IngestVecAdd /\ UNCHANGED <<decayLocals, entVars>>
  \/ IngestDone /\ UNCHANGED <<decayLocals, entVars>>
  \/ \E m \in 1..MaxMemories :
       DeleteMemoryEndpoint(m) /\ UNCHANGED <<decayLocals, entVars>>
  \/ \E prefix \in Prefixes :
       DeleteMemoriesByContent(prefix) /\ UNCHANGED <<decayLocals, entVars>>
  \/ /\ IngestEntityStart("e1")
     /\ eargs'["e1"].name \in {<<65, 108>>, <<97, 108>>}
     /\ eargs'["e1"].summary = NoSummary
     /\ UNCHANGED decayVars
  \/ IngestSummary("e1") /\ UNCHANGED <<decayVars, mirVars>>
  \/ IngestMetadata("e1") /\ UNCHANGED <<decayVars, mirVars>>
  \/ IngestAdd("e1") /\ UNCHANGED <<decayVars, mirVars>>
  \/ IngestMention("e1") /\ UNCHANGED decayVars
  \/ IngestReturnPlain("e1") /\ UNCHANGED decayVars
  \/ \E e \in 1..MaxEntityIds : DeleteEntity(e) /\ UNCHANGED decayVars

StartMentions == InitCtx /\ InitDecayEmpty /\ InitEntity /\ InitLoops /\ InitMirror /\ InitAnalysis /\ InitSearch

SpecMentions ==
  StartMentions /\ [][NextMentions /\ UNCHANGED <<searchVars, ctxVars, loopVars, anVars>>]_vars

\* The handoff variables other than the table and the clock, and the
\* variables of the memories section other than the conversations.
ctxLocals == <<pc, args, ctx, ret, seen, expired, consumed>>

mirRest == <<memory_cols, memoriesAdded, entity_mentions, mentionsAdded,
             entitiesDeleted, collection, ipc, imid, iinput, imsgs, vecFailed,
             ememory>>

\* run_analysis calls one after the other, for no conversation or for one
\* that has a row, while loops of priority 'high' are added and resolved.
NextAnalysis ==
  \/ AnalyzeStart /\ aconv' # NoSuchId /\ UNCHANGED loopVars
  \/ AnalyzeModel /\ UNCHANGED loopVars
  \/ AnalyzeReconcile /\ UNCHANGED loopVars
  \/ AnalyzeConversation /\ UNCHANGED loopVars
  \/ AnalyzeSave /\ UNCHANGED loopVars
  \/ AnalyzeMark /\ UNCHANGED loopVars
  \/ /\ AddOpenLoop
     /\ lcall'.status = "created"
     /\ open_loops'[Len(open_loops')].priority = "high"
     /\ UNCHANGED <<anVars, prepared_contexts, conversations, now>>
  \/ ResolveLoop /\ UNCHANGED <<anVars, prepared_contexts, conversations, now>>

StartAnalysis == InitCtx /\ InitDecayIdle /\ InitEntity /\ InitLoops /\ InitMirror /\ InitAnalysis /\ InitSearch

SpecAnalysis ==
  StartAnalysis
    /\ [][NextAnalysis /\ UNCHANGED <<searchVars, ctxLocals, decayVars, entVars, mirRest>>]_vars

\* Memories are ingested and the collection is searched.
NextSearch ==
  \/ IngestRawMemory /\ ipc' = "vec" /\ UNCHANGED <<decayLocals, searchVars>>
  \/ IngestVecAdd /\ UNCHANGED <<decayLocals, searchVars>>
  \/ IngestDone /\ UNCHANGED <<decayLocals, searchVars>>
  \/ Search /\ UNCHANGED <<decayVars, mirVars>>

StartSearch == InitCtx /\ InitDecayEmpty /\ InitEntity /\ InitLoops /\ InitMirror /\ InitAnalysis /\ InitSearch

SpecSearch ==
  StartSearch
    /\ [][NextSearch /\ UNCHANGED <<ctxVars, entVars, loopVars, anVars>>]_vars

\* Writing passes of apply_decay, one after the other without end, with rate
\* 0.5 and min_importance 0.3: a pass that can begin does begin, and a pass
\* that has begun goes through its rows and returns.
NextDecayPasses ==
  \/ DecayPassStart
  \/ DecayRow("d1")
  \/ DecayReturn("d1")

StartDecayPasses == InitCtx /\ InitDecayUntilArchived /\ InitEntity /\ InitLoops /\ InitMirror /\ InitAnalysis /\ InitSearch

decayRest == <<ctxVars, entVars, loopVars, mirVars, anVars, searchVars>>

PassesKeepRunning ==
  /\ WF_vars(DecayPassStart /\ UNCHANGED decayRest)
  /\ WF_vars(DecayRow("d1") /\ UNCHANGED decayRest)
  /\ WF_vars(DecayReturn("d1") /\ UNCHANGED decayRest)

SpecDecayPasses ==
  StartDecayPasses
    /\ [][NextDecayPasses /\ UNCHANGED decayRest]_vars
    /\ PassesKeepRunning

\* Two callers of get_prepared_context, peeking and consuming, while contexts
\* are saved and the clock advances by whole seconds.
NextPeek ==
  \/ Tick /\ now'.us = 0
  \/ SavePreparedContext
  \/ \E p \in Callers : GpcRead(p)
  \/ \E p \in Callers : GpcMark(p)
  \/ \E p \in Callers : Finish(p)

StartPeek == InitCtx /\ InitDecayIdle /\ InitEntity /\ InitLoops /\ InitMirror /\ InitAnalysis /\ InitSearch

SpecPeek ==
  StartPeek
    /\ [][NextPeek /\ UNCHANGED <<decayVars, entVars, loopVars, mirVars, anVars, searchVars>>]_vars

\* The fallback context is asked for while loops are added and resolved,
\* memories are ingested and one pass of apply_decay archives, and the clock
\* advances by whole seconds; no prepared context is ever saved.
NextFallback ==
  \/ /\ Tick /\ now'.us = 0
     /\ UNCHANGED <<loopVars, decayVars, mirVars, searchVars>>
  \/ /\ AddOpenLoop
     /\ lcall'.status = "created"
     /\ open_loops'[Len(open_loops')].summary = "call mom"
     /\ open_loops'[Len(open_loops')].priority # "medium"
     /\ UNCHANGED <<ctxVars, decayVars, mirVars, searchVars>>
  \/ /\ ResolveLoop
     /\ UNCHANGED <<ctxVars, decayVars, mirVars, searchVars>>
  \/ /\ IngestRawMemory /\ ipc' = "vec" /\ iinput'.memory_type = "fact"
     /\ UNCHANGED <<ctxVars, loopVars, decayLocals, searchVars>>
  \/ /\ IngestVecAdd
     /\ UNCHANGED <<ctxVars, loopVars, decayLocals, searchVars>>
  \/ /\ IngestDone
     /\ UNCHANGED <<ctxVars, loopVars, decayLocals, searchVars>>
  \/ /\ runs = 0 /\ ipc = "idle"
     /\ DecayStart("d1")
     /\ dargs'["d1"].min_importance = Rat(3, 10)
     /\ ~dargs'["d1"].dry_run
     /\ UNCHANGED <<ctxVars, loopVars, mirVars, searchVars>>
  \/ /\ DecayRow("d1")
     /\ UNCHANGED <<ctxVars, loopVars, mirVars, searchVars>>
  \/ /\ DecayReturn("d1")
     /\ UNCHANGED <<ctxVars, loopVars, mirVars, searchVars>>
  \/ /\ FallbackContext
     /\ UNCHANGED <<ctxLocals, now, loopsAdded, listing, lcall, decayLocals, mirRest,
                    conversations>>

StartFallback == InitCtx /\ InitDecayEmpty /\ InitEntity /\ InitLoops /\ InitMirror /\ InitAnalysis /\ InitSearch

SpecFallback == StartFallback /\ [][NextFallback /\ UNCHANGED <<entVars, anVars>>]_vars

\* POST /memory and POST /loops with whatever type and priority the caller
\* sends.
NextValidation ==
  \/ IngestRawMemory /\ UNCHANGED <<decayLocals, loopVars>>
  \/ IngestVecAdd /\ UNCHANGED <<decayLocals, loopVars>>
  \/ IngestDone /\ UNCHANGED <<decayLocals, loopVars>>
  \/ AddOpenLoop /\ UNCHANGED <<decayVars, mirVars>>

StartValidation == InitCtx /\ InitDecayEmpty /\ InitEntity /\ InitLoops /\ InitMirror /\ InitAnalysis /\ InitSearch

SpecValidation ==
  StartValidation
    /\ [][NextValidation /\ UNCHANGED <<searchVars, ctxVars, entVars, anVars>>]_vars

\* run_analysis calls one after the other, with any conversation_id a caller
\* can supply, on a store without open loops; between the calls
\* ingest_conversation opens conversations (of no messages) and the clock
\* advances.
NextConversation ==
  \/ /\ AnalyzeStart
     /\ ipc = "idle"
     /\ UNCHANGED <<decayVars, mirRest>>
  \/ /\ AnalyzeModel
     /\ aresult'.open_loops = <<>>
     /\ UNCHANGED <<decayVars, mirRest>>
  \/ AnalyzeReconcile /\ UNCHANGED <<decayVars, mirRest>>
  \/ AnalyzeConversation /\ UNCHANGED <<decayVars, mirRest>>
  \/ AnalyzeSave /\ UNCHANGED <<decayVars, mirRest>>
  \/ AnalyzeMark /\ UNCHANGED <<decayVars, mirRest>>
  \/ /\ apc = "idle"
     /\ IngestConversation
     /\ imsgs'.rest = <<>>
     /\ UNCHANGED <<anVars, decayLocals, prepared_contexts, now>>
  \/ /\ IngestConversationReturn
     /\ UNCHANGED <<anVars, decayLocals, prepared_contexts, now>>
  \/ /\ IngestDone
     /\ UNCHANGED <<anVars, decayLocals, prepared_contexts, now>>
  \/ /\ apc = "idle"
     /\ Tick
     /\ UNCHANGED <<anVars, decayVars, mirVars>>

StartConversation == InitCtx /\ InitDecayIdle /\ InitEntity /\ InitLoops /\ InitMirror /\ InitAnalysis /\ InitSearch

SpecConversation ==
  StartConversation
    /\ [][NextConversation /\ UNCHANGED <<searchVars, ctxLocals, entVars, loopVars>>]_vars

\* run_analysis on a store in long use, for no conversation and an answer
\* of the model that proposes at most one loop, while the two oldest loops
\* are resolved.
NextReconcile ==
  \/ AnalyzeStart /\ aconv' = NULL /\ UNCHANGED loopVars
  \/ AnalyzeModel /\ Len(aresult'.open_loops) <= 1 /\ UNCHANGED loopVars
  \/ AnalyzeReconcile /\ UNCHANGED loopVars
  \/ AnalyzeConversation /\ UNCHANGED loopVars
  \/ AnalyzeSave /\ UNCHANGED loopVars
  \/ AnalyzeMark /\ UNCHANGED loopVars
  \/ ResolveLoop /\ UNCHANGED <<anVars, prepared_contexts, conversations, now>>

StartReconcile == InitCtx /\ InitDecayIdle /\ InitEntity /\ InitLoopsStored /\ InitMirror /\ InitAnalysis /\ InitSearch

SpecReconcile ==
  StartReconcile
    /\ [][NextReconcile /\ UNCHANGED <<searchVars, ctxLocals, decayVars, entVars, mirRest>>]_vars

\* extract_entity_names calls on a store with entities on record.
NextExtract == ExtractEntityNames

StartExtract == InitCtx /\ InitDecayIdle /\ InitEntityRecorded /\ InitLoops /\ InitMirror /\ InitAnalysis /\ InitSearch

entRest == <<epc, eargs, existing, eid, before, ingests>>

SpecExtract ==
  StartExtract
    /\ [][NextExtract /\ UNCHANGED <<ctxVars, decayVars, entRest, loopVars, mirVars, anVars>>]_vars

\* Two writing apply_decay runs that overlap: the second begins while the
\* first is in its loop (which of two callers is first makes no
\* difference), and the callers take their results when both loops are over.
NextDecayRace ==
  \/ DecayStart("d1") /\ runs = 0 /\ ~dargs'["d1"].dry_run
  \/ DecayStart("d2") /\ runs = 1 /\ dpc["d1"] = "scan" /\ ~dargs'["d2"].dry_run
  \/ \E r \in Runners : DecayRow(r)
  \/ \E r \in Runners : DecayReturn(r) /\ \A q \in Runners : dpc[q] # "scan"

StartDecayRace == InitCtx /\ InitDecay /\ InitEntity /\ InitLoops /\ InitMirror /\ InitAnalysis /\ InitSearch

SpecDecayRace ==
  StartDecayRace
    /\ [][NextDecayRace /\ UNCHANGED <<searchVars, ctxVars, entVars, loopVars, mirVars, anVars>>]_vars

----------------------------------------------------------------------------
(* Claims about the prepared-context handoff, checked under SpecCtx.       *)

\* Pending, as the specification defines it: used_at absent and the time
\* expires_at in the future.
Pending(r, t) == r.used_at = NULL /\ TimeLT(t, fromisoformat(r.expires_at))

PendingIds(rows, t) == {rows[i].id : i \in {k \in 1..Len(rows) : Pending(rows[k], t)}}

\* The caller's call was made with mark_used=True and found a row.
MarkUsed(p) == args[p] = [name |-> "mark_used", value |-> TRUE]

\* A caller's query runs in this step.
Queries(p) == pc[p] = "idle" /\ pc'[p] # "idle"

\* C1: once a get_prepared_context(mark_used=True) call has returned
\* context c and completed, no query that runs later returns c, and c
\* stays Used (its used_at stays set).
C1_AtMostOnceSequential ==
  /\ \A p \in Callers : pc[p] # "idle" /\ ctx[p] # NULL => ctx[p] \notin seen[p]
  /\ \A c \in consumed : RowOf(prepared_contexts, c).used_at # NULL

\* A query ran after context c was delivered, while c was still unexpired,
\* and did not return c.
C1_Witness ==
  \E p \in Callers : \E c \in seen[p] :
    /\ pc[p] = "done"
    /\ ctx[p] # c
    /\ TimeLT(now, fromisoformat(RowOf(prepared_contexts, c).expires_at))

\* C2: two overlapping get_prepared_context(mark_used=True) calls that both
\* read the same row before either marked it both return that row's
\* context_id.
C2_DuplicateDelivery ==
  \A p, q \in Callers :
    ( /\ p # q
      /\ pc[p] = "done" /\ pc[q] = "done"
      /\ MarkUsed(p) /\ MarkUsed(q)
      /\ ctx[p] # NULL /\ ctx[p] = ctx[q] )
    => /\ ret[p] = PreparedPayload(ctx[p])
       /\ ret[q] = PreparedPayload(ctx[p])

\* Both calls have returned the same context_id.
C2_Witness ==
  \E p, q \in Callers :
    /\ p # q
    /\ pc[p] = "done" /\ pc[q] = "done"
    /\ MarkUsed(p) /\ MarkUsed(q)
    /\ ret[p].source = "prepared" /\ ret[q].source = "prepared"
    /\ ret[p].context_id = ret[q].context_id

\* C3: a row whose expires_at is not in the future when the query runs is
\* never the row the query returns, also when its used_at is absent.
C3_ExpiredNeverReturned ==
  \A p \in Callers : pc[p] # "idle" /\ ctx[p] # NULL => ctx[p] \notin expired[p]

\* A query ran while an unused row had expired, at the very instant of its
\* expires_at.
C3_Witness ==
  \E p \in Callers : \E c \in expired[p] :
    /\ pc[p] = "done"
    /\ ctx[p] # c
    /\ fromisoformat(RowOf(prepared_contexts, c).expires_at) = now

\* The row created last among the Pending ones; NULL when none is Pending.
NewestPending(rows, t) ==
  LET pend == {k \in 1..Len(rows) : Pending(rows[k], t)}
  IN  IF pend = {} THEN NULL
      ELSE rows[CHOOSE k \in pend : \A j \in pend : j <= k].id

\* C4: get_unused_context returns the most recently created Pending row,
\* and nothing exactly when no row is Pending.
C4_NewestPendingReturned ==
  [][\A p \in Callers :
       Queries(p) => ctx'[p] = NewestPending(prepared_contexts, now)]_vars

\* C5: with nothing Pending and fallback disabled get_prepared_context
\* raises RuntimeError, returns no payload, and leaves the prepared
\* contexts as they were.
C5_NoContextRaises ==
  [][\A p \in Callers :
       ( /\ Queries(p)
         /\ PendingIds(prepared_contexts, now) = {}
         /\ args'[p] = [name |-> "fallback", value |-> FALSE] )
       => /\ ret'[p] = RuntimeError
          /\ pc'[p] = "done"
          /\ prepared_contexts' = prepared_contexts]_vars

\* A call with fallback disabled has raised while an unused row existed.
C5_Witness ==
  \E p \in Callers :
    /\ pc[p] = "done"
    /\ ret[p] = RuntimeError
    /\ args[p] = [name |-> "fallback", value |-> FALSE]
    /\ expired[p] # {}

----------------------------------------------------------------------------
(* Claims about the decay engine, checked under SpecDecay.                 *)

\* Runner r executes one iteration of its for loop in this step.
RowStep(r) == dpc[r] = "scan" /\ idx'[r] = idx[r] + 1

\* The row that iteration is about.
CurrentRow(r) == drows[r][idx[r]]

Ids(list) == {list[i].id : i \in 1..Len(list)}

\* The effective rate as the specification words it: the row's decay_factor
\* when it is set (to a non-zero value), the global rate otherwise.
ClaimedRate(row, decay_rate) ==
  IF row.decay_factor = NoFactor \/ row.decay_factor = Zero
    THEN decay_rate ELSE row.decay_factor

ClaimedNew(row, decay_rate) == Mul(row.importance, ClaimedRate(row, decay_rate))

\* The snapshot of every run in progress shows memory m as protected.
ProtectedInSnapshots(m) ==
  \A r \in Runners : \A i \in 1..Len(drows[r]) :
    drows[r][i].id = m => drows[r][i].protected

\* C6: whatever the rate and the threshold, a memory whose
\* metadata.protected is true throughout (in the store before and after the
\* step and in the snapshot of every run in progress) is not archived and
\* its importance does not change.
C6_ProtectedUntouched ==
  [][\A m \in DOMAIN memories :
       ( /\ memories[m].protected
         /\ memories'[m].protected
         /\ ProtectedInSnapshots(m) )
       => /\ memories'[m].importance = memories[m].importance
          /\ memories'[m].archived = memories[m].archived]_vars

\* A non-dry run has finished that skipped a protected memory which the
\* threshold would otherwise have archived.
C6_Witness ==
  \E r \in Runners : \E i \in 1..Len(drows[r]) :
    /\ dpc[r] = "done"
    /\ ~dargs[r].dry_run
    /\ drows[r][i].protected
    /\ Less(ClaimedNew(drows[r][i], dargs[r].decay_rate), dargs[r].min_importance)
    /\ drows[r][i].id \in Ids(protected[r])
    /\ ~memories[drows[r][i].id].archived
    /\ memories[drows[r][i].id].importance = drows[r][i].importance

\* The write of a non-dry pass for an unprotected row that stays at or
\* above the threshold: the stored importance becomes old * effective_rate.
RescoredAsClaimed(r) ==
  LET row == CurrentRow(r)
      new == ClaimedNew(row, dargs[r].decay_rate)
  IN  ( /\ RowStep(r)
        /\ ~dargs[r].dry_run
        /\ ~row.protected
        /\ ~Less(new, dargs[r].min_importance) )
      => memories'[row.id].importance = new

\* 0 < rate < 1
ProperRate(rate) == Less(Zero, rate) /\ Less(rate, Rat(1, 1))

\* C7 as stated: the re-scored importance is old * effective_rate, and for
\* 0 < rate < 1 it is never greater than the old importance.
C7_DecayNeverIncreases ==
  [][\A r \in Runners :
       LET row == CurrentRow(r)
           rate == ClaimedRate(row, dargs[r].decay_rate)
       IN  /\ RescoredAsClaimed(r)
           /\ ( /\ RowStep(r)
                /\ ~row.protected
                /\ ProperRate(rate) )
              => ~Less(row.importance, Mul(row.importance, rate))]_vars

\* C7 as amended: the re-scored importance is old * effective_rate, and for
\* 0 < effective_rate < 1 and a non-negative old importance it is never
\* greater than the old importance.
C7_DecayNeverIncreasesNonNegative ==
  [][\A r \in Runners :
       LET row == CurrentRow(r)
           rate == ClaimedRate(row, dargs[r].decay_rate)
       IN  /\ RescoredAsClaimed(r)
           /\ ( /\ RowStep(r)
                /\ ~row.protected
                /\ ProperRate(rate)
                /\ ~Less(row.importance, Zero) )
              => ~Less(row.importance, Mul(row.importance, rate))]_vars

\* A non-dry run has re-scored a memory with a per-row override, and one
\* with the global rate to a smaller importance.
C7_Witness ==
  \E r \in Runners : \E i, j \in 1..Len(decayed[r]) :
    /\ dpc[r] = "done"
    /\ ~dargs[r].dry_run
    /\ memories[decayed[r][i].id].importance = decayed[r][i].new_importance
    /\ memories[decayed[r][i].id].decay_factor # NoFactor
    /\ memories[decayed[r][i].id].decay_factor # Zero
    /\ memories[decayed[r][j].id].importance = decayed[r][j].new_importance
    /\ memories[decayed[r][j].id].decay_factor = NoFactor
    /\ Less(decayed[r][j].new_importance, decayed[r][j].old_importance)

\* The three lists of a finished run partition its snapshot, and the
\* archived ones are exactly the unprotected rows whose importance *
\* effective_rate is below min_importance.
C8_Partition ==
  \A r \in Runners :
    dpc[r] = "done" =>
      LET all == Ids(drows[r])
          below == {drows[r][i].id : i \in {k \in 1..Len(drows[r]) :
                      /\ ~drows[r][k].protected
                      /\ Less(ClaimedNew(drows[r][k], dargs[r].decay_rate),
                              dargs[r].min_importance)}}
      IN  /\ Ids(protected[r]) \cup Ids(decayed[r]) \cup Ids(will_archive[r]) = all
          /\ Len(protected[r]) + Len(decayed[r]) + Len(will_archive[r]) = Cardinality(all)
          /\ Ids(protected[r]) = {drows[r][i].id : i \in {k \in 1..Len(drows[r]) : drows[r][k].protected}}
          /\ Ids(will_archive[r]) = below

\* What one iteration of a non-dry pass does to the store: an archived row
\* stays in the table with its importance as it was; a re-scored row is not
\* archived; a protected row and every other row are left alone.
C8_Step ==
  \A r \in Runners :
    (RowStep(r) /\ ~dargs[r].dry_run) =>
      LET row == CurrentRow(r)
          below == Less(ClaimedNew(row, dargs[r].decay_rate), dargs[r].min_importance)
      IN  /\ DOMAIN memories' = DOMAIN memories
          /\ \A m \in DOMAIN memories : m # row.id => memories'[m] = memories[m]
          /\ row.protected => memories'[row.id] = memories[row.id]
          /\ (~row.protected /\ below) =>
               /\ memories'[row.id].archived
               /\ memories'[row.id].importance = memories[row.id].importance
          /\ (~row.protected /\ ~below) =>
               memories'[row.id].archived = memories[row.id].archived

\* C8: in one pass every scanned memory is skipped (protected), re-scored
\* or archived, exactly one of the three; it is archived exactly when
\* importance * effective_rate < min_importance; an archived memory stays
\* in the store and its importance is not re-scored by that pass.
C8_ExactlyOneOutcome == []C8_Partition /\ [][C8_Step]_vars

\* Scenario C: importance 0.5, rate 0.5, threshold 0.3; the pass has
\* archived the memory, and skipped or re-scored another one.
C8_Witness ==
  \E r \in Runners : \E i \in 1..Len(will_archive[r]) :
    /\ dpc[r] = "done"
    /\ ~dargs[r].dry_run
    /\ dargs[r].decay_rate = Rat(1, 2)
    /\ dargs[r].min_importance = Rat(3, 10)
    /\ will_archive[r][i].old_importance = Rat(1, 2)
    /\ will_archive[r][i].new_importance = Rat(1, 4)
    /\ memories[will_archive[r][i].id].archived
    /\ memories[will_archive[r][i].id].importance = Rat(1, 2)
    /\ Len(drows[r]) > Len(will_archive[r])

\* A dry run changes nothing in the store.
C9_DryStep ==
  \A r \in Runners :
    ( /\ dpc'[r] # dpc[r] \/ idx'[r] # idx[r]
      /\ dargs[r].dry_run \/ dargs'[r].dry_run )
    => memories' = memories

\* The runner has finished a non-dry run whose arguments and snapshot are
\* those of the dry run that finished just before it.
AfterDryRun(r) ==
  /\ dpc[r] = "done"
  /\ ~dargs[r].dry_run
  /\ last.args = [dargs[r] EXCEPT !.dry_run = TRUE]
  /\ last.rows = drows[r]

\* The dry run reported the partition and the counts of the run that
\* followed, and the store shows what the dry run announced.
C9_SamePartition ==
  \A r \in Runners :
    AfterDryRun(r) =>
      /\ last.protected = protected[r]
      /\ last.decayed = decayed[r]
      /\ last.will_archive = will_archive[r]
      /\ Len(last.protected) = DecayResult(r).protected_count
      /\ Len(last.decayed) = DecayResult(r).decayed_count
      /\ Len(last.will_archive) = DecayResult(r).archived_count
      /\ \A i \in 1..Len(last.will_archive) :
           memories[last.will_archive[i].id].archived
      /\ \A i \in 1..Len(last.decayed) :
           /\ ~memories[last.decayed[i].id].archived
           /\ memories[last.decayed[i].id].importance = last.decayed[i].new_importance
      /\ \A i \in 1..Len(last.protected) :
           /\ ~memories[last.protected[i].id].archived
           /\ memories[last.protected[i].id].importance = last.protected[i].importance

\* C9: apply_decay(dry_run=True) leaves every memory as it was and reports
\* the counts and the per-memory partition that a non-dry run with the same
\* rate and threshold produces from the same store state.
C9_DryRunForecast == [][C9_DryStep]_vars /\ []C9_SamePartition

\* A non-dry run followed a dry run from the same state, and all three
\* outcomes occurred.
C9_Witness ==
  \E r \in Runners :
    /\ AfterDryRun(r)
    /\ Len(last.will_archive) > 0
    /\ Len(last.decayed) + Len(last.protected) > 0

----------------------------------------------------------------------------
(* Claims about entity resolution, checked under SpecEntity.               *)

\* A dict as the map it is: its set of <<key, value>> items.
Items(d) == {d[i] : i \in 1..Len(d)}

\* old overwritten by the keys of new, every other key of old preserved.
ShallowMerge(old, new) ==
  Items(new) \cup {item \in Items(old) : item[1] \notin DictKeys(new)}

\* The rows of the table whose name is the given one up to case.
SameNameRows(rows, name) == {i \in 1..Len(rows) : lower(rows[i].name) = lower(name)}

\* C10: ingest_entity on a name that already exists (case-insensitively)
\* merges instead of inserting: no row is added, the stored metadata is the
\* old map overwritten by the incoming keys with all other keys preserved,
\* the summary is replaced only when the incoming one is non-empty, the
\* entity's id, name and type are unchanged, and its id is returned.
C10_MergeOnExistingName ==
  \A p \in Ingesters :
    (epc[p] = "done" /\ SameNameRows(before[p], eargs[p].name) # {}) =>
      /\ Len(entities) = Len(before[p])
      /\ \A i \in SameNameRows(before[p], eargs[p].name) :
           LET old == before[p][i]
               new == entities[i]
           IN  /\ eid[p] = old.id
               /\ new.id = old.id
               /\ new.name = old.name
               /\ new.entity_type = old.entity_type
               /\ Items(json_loads(new.metadata))
                    = ShallowMerge(json_loads(old.metadata), eargs[p].metadata)
               /\ new.summary = IF SummaryTruthy(eargs[p].summary)
                                  THEN eargs[p].summary ELSE old.summary

\* C11: after any sequence of non-overlapping ingest_entity and
\* seed_entities calls, no two entity rows have names that are equal when
\* lowercased.
C11_NamesUnique ==
  \A i, j \in 1..Len(entities) :
    i # j => lower(entities[i].name) # lower(entities[j].name)

\* Callers p and q have both finished a merge into the same entity, each
\* with metadata to merge, and both read the same metadata of it.
BothMerged(p, q) ==
  /\ p # q
  /\ epc[p] = "done" /\ epc[q] = "done"
  /\ existing[p] # NoEntity /\ existing[q] # NoEntity
  /\ existing[p].id = existing[q].id
  /\ existing[p].metadata = existing[q].metadata
  /\ DictTruthy(eargs[p].metadata) /\ DictTruthy(eargs[q].metadata)

\* C12: two overlapping ingest_entity calls on the same existing entity
\* that both read its metadata before either wrote end with one caller's
\* merge only: the stored metadata is what was read overwritten by the keys
\* of the caller that wrote last, so a key only the other caller carried is
\* missing.
C12_LastWriteWins ==
  \A p, q \in Ingesters :
    BothMerged(p, q) =>
      LET old == json_loads(existing[p].metadata)
          stored == Items(json_loads(RowOf(entities, existing[p].id).metadata))
      IN  stored \in {ShallowMerge(old, eargs[p].metadata),
                      ShallowMerge(old, eargs[q].metadata)}

\* Both calls are done, they carried different keys, and the stored
\* metadata lacks the key of one of them.
C12_Witness ==
  \E p, q \in Ingesters :
    /\ BothMerged(p, q)
    /\ DictKeys(eargs[p].metadata) \cap DictKeys(eargs[q].metadata) = {}
    /\ \E k \in DictKeys(eargs[p].metadata) :
         k \notin DictKeys(json_loads(RowOf(entities, existing[p].id).metadata))

----------------------------------------------------------------------------
(* Claims about the open loops, checked under SpecLoops.                   *)

\* The row of the table with the given id, in the table as it is after
\* the step.
LoopAfter(id) == RowOf(open_loops', id)

\* C13: resolve_loop(id) on a loop that is already resolved leaves its
\* resolved_at at the value the first call set: no step changes a
\* resolved_at that is set.
C13_ResolveIdempotent ==
  [][\A i \in 1..Len(open_loops) :
       ( /\ open_loops[i].resolved_at # NULL
         /\ \E j \in 1..Len(open_loops') : open_loops'[j].id = open_loops[i].id )
       => LoopAfter(open_loops[i].id).resolved_at = open_loops[i].resolved_at]_vars

\* The i-th loop of a listing was created after the j-th (ids are given
\* out in the order of creation).
CreatedAfter(a, b) == a.id > b.id

\* C14: get_open_loops(limit) returns only loops whose resolved_at is
\* absent, at most limit of them, ordered by priority rank and, within one
\* priority, newest created first.
C14_ListingOrder ==
  [][listing' # listing =>
       LET result == listing'.rows
       IN  /\ \A i \in 1..Len(result) :
                /\ result[i].resolved_at = NULL
                /\ \E k \in 1..Len(open_loops) : open_loops[k] = result[i]
           /\ Len(result) <= listing'.limit
           /\ \A i, j \in 1..Len(result) :
                i < j =>
                  \/ PriorityRank(result[i].priority) < PriorityRank(result[j].priority)
                  \/ /\ result[i].priority = result[j].priority
                     /\ CreatedAfter(result[i], result[j])]_vars

----------------------------------------------------------------------------
(* Claims about memories, mentions and the Vector Mirror.                  *)

\* The memories a step deletes.
Deleted == DOMAIN memories \ DOMAIN memories'

\* C15: a step that deletes a memory (DELETE /memory/{id} with the store's
\* delete_memory, delete_memories_by_content) leaves no row of the memory,
\* no EntityMention of it and no VectorRecord with its id.
C15_DeleteRemovesAll ==
  [][\A m \in Deleted :
       /\ m \notin DOMAIN memory_cols'
       /\ \A r \in entity_mentions' : r.memory_id # m
       /\ m \notin DOMAIN collection']_vars

\* The mentions of a memory, and of an entity.
MentionsOfMemory(mentions, m) == {r \in mentions : r.memory_id = m}

MentionsOfEntity(mentions, e) == {r \in mentions : r.entity_id = e}

EntityIds(rows) == {rows[i].id : i \in 1..Len(rows)}

\* C16: every EntityMention names an entity row and a memory row that are
\* both there, and a step that deletes a memory or an entity leaves no
\* mention of it.
C16_MentionIntegrity ==
  /\ [](\A r \in entity_mentions :
          r.memory_id \in DOMAIN memories /\ r.entity_id \in EntityIds(entities))
  /\ [][/\ \A m \in Deleted : MentionsOfMemory(entity_mentions', m) = {}
        /\ \A e \in EntityIds(entities) \ EntityIds(entities') :
             MentionsOfEntity(entity_mentions', e) = {}]_vars

\* A mention was stored, and the deletion of its memory took it along: no
\* entity was deleted, no memory is left and neither is a mention.
C16_Witness ==
  /\ mentionsAdded > 0
  /\ entitiesDeleted = 0
  /\ DOMAIN memories = {}
  /\ entity_mentions = {}

\* The step in which the vector write of ingest_raw_memory fails.
VecFails == ipc = "vec" /\ ipc' = "raised"

\* C17: the VectorRecord of a memory is written only by the ingest_raw_memory
\* call that has committed the row; when that write fails the call ends with
\* the exception and, writing nothing more, leaves the row where it is, and
\* from then on a memory whose vector write failed has no VectorRecord.
C17_RowSurvivesVectorFailure ==
  /\ [][/\ \A m \in DOMAIN collection' \ DOMAIN collection :
             ipc = "vec" /\ imid = m /\ m <= memoriesAdded
        /\ \A m \in DOMAIN memories' \ DOMAIN memories : m \notin DOMAIN collection'
        /\ VecFails =>
             /\ memories' = memories /\ memory_cols' = memory_cols
             /\ collection' = collection
             /\ imid \notin DOMAIN collection'
        /\ ipc = "raised" /\ ipc' # "raised" =>
             /\ ipc' = "idle"
             /\ memories' = memories /\ memory_cols' = memory_cols
             /\ collection' = collection]_vars
  /\ [](\A m \in vecFailed : m \notin DOMAIN collection)

\* The vector write of a call has just failed: its row is in the store and
\* the collection has no record for it.
C17_Witness ==
  /\ ipc = "raised"
  /\ imid \in vecFailed
  /\ imid \in DOMAIN memories
  /\ imid \notin DOMAIN collection

\* No vector write has failed and none is outstanding: every
\* ingest_raw_memory call that committed a row has made its vector write.
NoWriteFailed == vecFailed = {} /\ ipc # "vec"

\* C18: when no vector write has failed and none is outstanding, every memory
\* that is not archived has a VectorRecord under its id whose document is the
\* content of the memory.
C18_NonArchivedMirrored ==
  NoWriteFailed =>
    \A m \in DOMAIN memories :
      ~memories[m].archived =>
        /\ m \in DOMAIN collection
        /\ collection[m].document = memory_cols[m].content

\* After a decay pass archived one memory, a memory stored from a
\* conversation is there with its VectorRecord, and no write failed.
C18_Witness ==
  /\ NoWriteFailed
  /\ ipc = "idle"
  /\ \E m \in DOMAIN memories : memories[m].archived
  /\ \E m \in DOMAIN memories :
       /\ ~memories[m].archived
       /\ memory_cols[m].memory_type = "conversation"
       /\ m \in DOMAIN collection

\* The ids in a result of recent_memories or search_memories, and in a
\* result of the semantic search.
Range(seq) == {seq[i] : i \in 1..Len(seq)}

Archived == {m \in DOMAIN memories : memories[m].archived}

\* A decay pass takes its snapshot in this step.
PassStarts(r) == dpc[r] = "idle" /\ dpc'[r] # "idle"

\* C19: an archived memory is in no result of recent_memories, of
\* search_memories with its default flags or of the semantic search, and the
\* snapshot of a decay pass that starts holds no row of it.
C19_ArchivedExcluded ==
  /\ [](\A m \in Archived :
          /\ \A limit \in 1..MaxMemories :
               \A res \in recent_memories(memories, memory_cols, limit) :
                 m \notin Range(res)
          /\ \A res \in search_memories(memories, memory_cols, NoType, NoMin, 50, FALSE) :
               m \notin Range(res)
          /\ \A n_results \in 1..MaxMemories :
               \A res \in search(collection, ShortA, n_results, NoMaxDistance) :
                 m \notin Ids(res))
  /\ [][PassStarts("d1") => \A m \in Archived : m \notin Ids(drows'["d1"])]_vars

----------------------------------------------------------------------------
(* Claims about run_analysis, checked under SpecAnalysis.                  *)

\* The loops in the open_loops snapshot of a prepared context, and the loop
\* lines of its rendered prompt.
StoredLoops(id) == loads_loops(context_payloads[id].open_loops_json)

PromptLoops(id) ==
  SelectSeq(context_payloads[id].prepared_prompt, LAMBDA l : l.line = "loop")

\* C20: in every prepared context run_analysis wrote, each loop of the
\* open_loops snapshot has the summary of a loop that was unresolved when
\* the call read the loops after the model's answer, and the loop lines of
\* the prompt are those loops, one line each with the summary in upper case;
\* so a proposed loop with any other summary is in neither.
C20_ReconciliationSound ==
  \A id \in DOMAIN context_payloads :
    /\ \A i \in 1..Len(StoredLoops(id)) : StoredLoops(id)[i].summary \in readAt[id]
    /\ Len(PromptLoops(id)) = Len(StoredLoops(id))
    /\ \A i \in 1..Len(StoredLoops(id)) :
         /\ PromptLoops(id)[i].summary = upper(StoredLoops(id)[i].summary)
         /\ PromptLoops(id)[i].priority = StoredLoops(id)[i].priority

\* A context has just been written from an answer that proposed 'call mom',
\* which is unresolved and was kept, and 'Ship it', which was resolved
\* before the read and was dropped.
C20_Witness ==
  /\ apc = "mark"
  /\ \E i \in 1..Len(aresult.open_loops) : aresult.open_loops[i].summary = "Ship it"
  /\ \E i \in 1..Len(open_loops) :
       open_loops[i].summary = "Ship it" /\ open_loops[i].resolved_at # NULL
  /\ aread = {"call mom"}
  /\ \E id \in DOMAIN context_payloads :
       /\ id = Len(prepared_contexts)
       /\ Len(StoredLoops(id)) = 1
       /\ StoredLoops(id)[1].summary = "call mom"

\* The step of run_analysis in which call_llm ends.
ModelCallEnds == apc = "llm" /\ apc' # "llm"

\* C21: when the model call raises (a timeout included) or its text cannot
\* be parsed, run_analysis ends there and returns the error value, and when
\* the parsed result is falsy it ends there and returns None; in neither case
\* does an exception leave run_analysis.
C21_ModelFailureReported ==
  [][ModelCallEnds =>
       /\ aresult'.kind \in {"raise", "unparseable"} =>
            apc' = "idle" /\ areturn' = "error"
       /\ aresult'.kind = "empty" => apc' = "idle" /\ areturn' = "None"]_vars

\* The model's text could not be parsed and the call returned the error
\* value.
C21_Witness ==
  /\ apc = "idle"
  /\ aresult.kind = "unparseable"
  /\ areturn = "error"

\* The latest run_analysis call ended with the error value or with None.
AnalysisFailed == apc = "idle" /\ areturn \in {"error", "None"}

\* C22: when run_analysis ends with the error value or with None, the
\* tables prepared_contexts and conversations are as they were when the call
\* began: no context row, no conversation row, no ended_at and no analyzed
\* flag has been written by the call.
C22_FailedAnalysisWritesNothing ==
  [][apc # "idle" /\ AnalysisFailed' =>
       /\ prepared_contexts' = abefore.prepared_contexts
       /\ conversations' = abefore.conversations
       /\ DOMAIN context_payloads' = 1..Len(abefore.prepared_contexts)]_vars

\* A call without a conversation id has ended with None on an empty result.
C22_Witness ==
  /\ AnalysisFailed
  /\ areturn = "None"
  /\ aresult.kind = "empty"
  /\ aconv = NULL

\* The row of conversations with this id.
ConversationRow(rows, conversation_id) ==
  rows[CHOOSE i \in 1..Len(rows) : rows[i].id = conversation_id]

\* run_analysis saves its context / returns its result.
ContextSaved == apc = "save" /\ apc' = "mark"
AnalysisReturns == apc = "mark" /\ apc' = "idle"

RecordStore ==
  <<memories, memory_cols, entities, entity_mentions, open_loops, conversations,
    prepared_contexts>>

\* ingest_raw_memory / add_open_loop is called.
RawMemoryCalled == ipc = "idle" /\ ipc' \in {"vec", "raised"}
OpenLoopCalled == lcall' # lcall

\* C24: a memory whose type is none of conversation, observation, decision,
\* personality, action_item, fact, and an open loop whose priority is none of
\* high, medium, low, is rejected: the call raises, and the tables of the
\* Record Store and the Vector Mirror are as they were.
C24_UnknownTypeRejected ==
  [][/\ RawMemoryCalled /\ iinput'.memory_type \notin MemoryTypes =>
          /\ ipc' = "raised"
          /\ UNCHANGED <<RecordStore, collection>>
     /\ OpenLoopCalled /\ lcall'.priority \notin Priorities =>
          /\ lcall'.status = "raised"
          /\ UNCHANGED <<RecordStore, collection>>]_vars

\* A memory of type 'note' was rejected after a loop of priority 'urgent'
\* was, with a memory and a loop stored before.
C24_Witness ==
  /\ ipc = "raised"
  /\ iinput.memory_type = "note"
  /\ vecFailed = {}
  /\ lcall = [priority |-> "urgent", status |-> "raised"]
  /\ DOMAIN memories # {}
  /\ open_loops # <<>>

\* ingest_entity of caller p comes to its add_entity_mention with a
\* memory_id that no row of memories has.
MentionOfMissingMemory(p) ==
  /\ epc[p] = "done"
  /\ epc'[p] = "idle"
  /\ ememory[p] # NULL
  /\ ememory[p] \notin DOMAIN memories

\* C25: an operation that names a memory, entity or loop id that does not
\* exist leaves every table as it was before the call: the deletes, the
\* resolve and the protect of a missing id change no table, and an
\* ingest_entity call whose memory_id is missing ends with the entities and
\* entity_mentions tables as they were when it began.
C25_NoPartialEffect ==
  /\ [](\A id \in (1..MaxMemories) \ DOMAIN memories :
          /\ delete_mentions_of_memory(entity_mentions, id) = entity_mentions
          /\ Without(memories, {id}) = memories
          /\ set_memory_protected(memories, id, TRUE) = memories)
  /\ [](\A id \in (1..MaxEntityIds) \ EntityIds(entities) :
          /\ delete_mentions_of_entity(entity_mentions, id) = entity_mentions
          /\ delete_entity_row(entities, id) = entities)
  /\ [](\A id \in (1..MaxLoops) \ {open_loops[i].id : i \in 1..Len(open_loops)} :
          /\ resolve_loop(open_loops, id, now) = open_loops
          /\ delete_loop(open_loops, id) = open_loops)
  /\ [][\A p \in Ingesters :
          MentionOfMissingMemory(p) =>
            /\ entity_mentions' = entity_mentions
            /\ entities' = before[p]]_vars

\* A search call has returned.
Searched == searched # NoSearch

\* C26: search returns at most n_results records, nearest first; its list is
\* the collection's answer for the n_results nearest records less those
\* farther than max_distance (all of the answer when no max_distance is
\* given), in the answer's order; and it is empty when the collection is.
C26_SearchRanked ==
  Searched =>
    LET result == searched.result
        top == searched.top
        kept == {i \in 1..Len(top) :
                   searched.max_distance = NoMaxDistance
                     \/ top[i].distance <= searched.max_distance}
    IN  /\ Len(result) <= searched.n_results
        /\ \A i, j \in 1..Len(result) : i < j => result[i].distance <= result[j].distance
        /\ Len(top) <= searched.n_results
        /\ Len(result) = Cardinality(kept)
        /\ \A i \in 1..Len(result) :
             \E k \in kept :
               /\ result[i] = top[k]
               /\ Cardinality({l \in kept : l < k}) = i - 1
        /\ searched.count = 0 => result = <<>>

\* A search for two records with max_distance 0 found one at distance 0 and
\* one farther, and returned the first alone.
C26_Witness ==
  /\ searched.n_results = 2
  /\ searched.max_distance = 0
  /\ Len(searched.top) = 2
  /\ searched.top[2].distance = 1
  /\ Len(searched.result) = 1
  /\ searched.result[1].distance = 0

\* A step of an apply_decay pass.
DecayStep == dpc' # dpc \/ idx' # idx

\* C27: no step of apply_decay changes the Vector Mirror: the records of the
\* collection, their documents and their metadata stay as they are while a
\* pass re-scores and archives memories.
C27_DecayLeavesVectors == [][DecayStep => collection' = collection]_vars

\* A pass that writes has archived a memory whose vector is stored.
C27_Witness ==
  /\ dpc["d1"] = "done"
  /\ ~dargs["d1"].dry_run
  /\ \E m \in DOMAIN memories : memories[m].archived /\ m \in DOMAIN collection
  /\ \E m \in DOMAIN memories : ~memories[m].archived /\ m \in DOMAIN collection

\* Memory m is not archived, not protected and has no decay_factor.
Decayable(m) ==
  /\ ~memories[m].archived
  /\ ~memories[m].protected
  /\ memories[m].decay_factor = NoFactor

Peek == [name |-> "mark_used", value |-> FALSE]

\* A step of a call of p that peeks.
PeekCallStep(p) == (args[p] = Peek \/ args'[p] = Peek) /\ pc'[p] # pc[p]

\* Caller p holds the answer of a peek: context c.
Peeked(p, c) == pc[p] = "done" /\ args[p] = Peek /\ ret[p] = PreparedPayload(c)

\* Context c is unused and not expired at time t, and the other rows that
\* are so and were created later than c / in the second of c.
PendingAt(c, t) == \E i \in 1..Len(prepared_contexts) :
  prepared_contexts[i].id = c /\ UnusedWhere(prepared_contexts[i], t)

NewerPending(c, t) ==
  {i \in 1..Len(prepared_contexts) :
     /\ UnusedWhere(prepared_contexts[i], t)
     /\ \E k \in 1..Len(prepared_contexts) :
          /\ prepared_contexts[k].id = c
          /\ prepared_contexts[i].created_at > prepared_contexts[k].created_at}

TiedPending(c, t) ==
  {i \in 1..Len(prepared_contexts) :
     /\ UnusedWhere(prepared_contexts[i], t)
     /\ prepared_contexts[i].id # c
     /\ \E k \in 1..Len(prepared_contexts) :
          /\ prepared_contexts[k].id = c
          /\ prepared_contexts[i].created_at = prepared_contexts[k].created_at}

\* C29: a get_prepared_context(mark_used=False) call writes nothing: no step
\* of it changes a row of prepared_contexts (no used_at is set), and it
\* returns the context its query found.  So a call that follows a peek of
\* context c, while c is unused and not expired and no newer context is, can
\* be answered with c again, and is answered with c when no other such
\* context was created in the second of c.
C29_PeekHasNoEffect ==
  /\ [][\A p \in Callers :
          PeekCallStep(p) =>
            /\ prepared_contexts' = prepared_contexts
            /\ pc'[p] = "done" =>
                 /\ ret'[p] = PreparedPayload(ctx'[p])
                 /\ ctx'[p] \in get_unused_context(prepared_contexts', now')]_vars
  /\ [][\A p, q \in Callers : \A c \in 1..MaxContexts :
          /\ Peeked(p, c)
          /\ pc[q] = "idle" /\ pc'[q] # "idle"
          /\ PendingAt(c, now)
          /\ NewerPending(c, now) = {}
          => /\ c \in get_unused_context(prepared_contexts, now)
             /\ TiedPending(c, now) = {} => ctx'[q] = c]_vars

\* Caller c1 holds the answer of a peek of context 1, and the call of c2 that
\* followed has consumed context 1.
C29_Witness ==
  /\ Peeked("c1", 1)
  /\ pc["c2"] = "done"
  /\ args["c2"] = [name |-> "mark_used", value |-> TRUE]
  /\ ret["c2"] = PreparedPayload(1)
  /\ seen["c2"] = {}
  /\ prepared_contexts[1].used_at # NULL

\* A fallback payload is built.
FallbackBuilt == built' # built

\* C30: with nothing Pending and fallback enabled get_prepared_context returns
\* a payload of source "fallback" that lists at most 5 loops, each unresolved
\* now, by priority rank and, within one priority, newest created first, and
\* at most 10 memories, each not archived now and none older than a
\* non-archived memory it leaves out; and the call changes no table and no
\* vector.
C30_FallbackPayload ==
  [][FallbackBuilt =>
       /\ built'.source = "fallback"
       /\ Len(built'.loops) <= 5
       /\ \A i \in 1..Len(built'.loops) :
            /\ built'.loops[i].resolved_at = NULL
            /\ \E k \in 1..Len(open_loops) : open_loops[k] = built'.loops[i]
       /\ \A i, j \in 1..Len(built'.loops) :
            i < j =>
              \/ PriorityRank(built'.loops[i].priority)
                   < PriorityRank(built'.loops[j].priority)
              \/ /\ built'.loops[i].priority = built'.loops[j].priority
                 /\ built'.loops[i].id > built'.loops[j].id
       /\ Len(built'.memories) <= 10
       /\ \A i \in 1..Len(built'.memories) :
            /\ built'.memories[i] \in DOMAIN memories
            /\ ~memories[built'.memories[i]].archived
       /\ \A m \in DOMAIN memories :
            (~memories[m].archived /\ \A i \in 1..Len(built'.memories) : built'.memories[i] # m)
              => \A i \in 1..Len(built'.memories) : built'.memories[i] > m
       /\ UNCHANGED <<RecordStore, collection>>]_vars

----------------------------------------------------------------------------
(* Claims about run_analysis on a store in long use, checked under         *)
(* SpecReconcile.                                                          *)

\* The proposed loops of the call that has just written a context, and the
\* context it wrote.
Proposed == aresult.open_loops

LatestContext == Len(prepared_contexts)

\* C31: when run_analysis has written its context, every open loop the
\* model proposed whose summary is the summary of a loop that was unresolved
\* when the call read the loops is in the open_loops snapshot of that
\* context, however many unresolved loops the store holds.
C31_ReconciliationComplete ==
  apc = "mark" =>
    \A i \in 1..Len(Proposed) :
      Proposed[i].summary \in aread =>
        \E j \in 1..Len(StoredLoops(LatestContext)) :
          StoredLoops(LatestContext)[j] = Proposed[i]

----------------------------------------------------------------------------
(* Claims about extract_entity_names, checked under SpecExtract.           *)

\* The names of the known entities of the latest call: those of its seed
\* list and those on record.
KnownNames ==
  {extracted.seed_entities[i].name : i \in 1..Len(extracted.seed_entities)}
    \cup {entities[i].name : i \in 1..Len(entities)}

\* The full lowercase name, or the lowercase first token when it is longer
\* than 2 characters, is a substring of the lowercased text.
Mentioned(name, text) ==
  \/ Contains(lower(name), lower(text))
  \/ /\ split(name) # <<>>
     /\ Len(split(name)[1]) > 2
     /\ Contains(lower(split(name)[1]), lower(text))

\* C32: a call of extract_entity_names returns a list without duplicates
\* whose names are the known entities (of the seed list and on record) that
\* the text mentions by full name or by a first token longer than 2
\* characters, and no other name.
C32_ExtractsMentioned ==
  extracted.status # "none" =>
    /\ extracted.status = "returned"
    /\ \A i, j \in 1..Len(extracted.found) :
         i # j => extracted.found[i] # extracted.found[j]
    /\ {extracted.found[i] : i \in 1..Len(extracted.found)}
         = {name \in KnownNames : Mentioned(name, extracted.text)}

----------------------------------------------------------------------------
(* Claims about overlapping decay runs, checked under SpecDecayRace.       *)

\* The table after one writing pass with arguments a that nothing overlaps.
PassResult(mem, a) ==
  [m \in DOMAIN mem |->
     LET row == [id |-> m, importance |-> mem[m].importance,
                 decay_factor |-> mem[m].decay_factor, protected |-> mem[m].protected]
     IN  IF mem[m].archived \/ IsProtected(row) THEN mem[m]
         ELSE IF BelowThreshold(row, a.decay_rate, a.min_importance)
           THEN [mem[m] EXCEPT !.archived = TRUE]
           ELSE [mem[m] EXCEPT !.importance = NewImportance(row, a.decay_rate)]]

\* The table as it was when the first run read it: its snapshot (no memory
\* was archived then).
TableAtStart ==
  [m \in 1..Len(drows["d1"]) |->
     [importance |-> drows["d1"][m].importance,
      decay_factor |-> drows["d1"][m].decay_factor,
      protected |-> drows["d1"][m].protected, archived |-> FALSE]]

BothLoopsOver == dpc["d1"] = "done" /\ dpc["d2"] = "done"

\* C33: when two overlapping writing runs have both finished their loops,
\* the importance and the archived flag of every memory are those that the
\* two passes give when one runs after the other from the table the first
\* run read.
C33_OverlapIsSerial ==
  BothLoopsOver =>
    \/ memories = PassResult(PassResult(TableAtStart, dargs["d1"]), dargs["d2"])
    \/ memories = PassResult(PassResult(TableAtStart, dargs["d2"]), dargs["d1"])

\* C34 (checked under SpecDecay, where set_memory_protected is called while
\* one run is in progress): a run that reaches memory m in its loop after
\* set_memory_protected(m, True) has completed (the store shows m as protected) neither archives m
\* nor changes its importance, also when its snapshot shows m unprotected.
C34_ProtectionWins ==
  [][\A r \in Runners :
       RowStep(r) /\ memories[CurrentRow(r).id].protected
         => /\ memories'[CurrentRow(r).id].importance = memories[CurrentRow(r).id].importance
            /\ memories'[CurrentRow(r).id].archived = memories[CurrentRow(r).id].archived]_vars

----------------------------------------------------------------------------
(* Claims about the states of a prepared context, checked under SpecCtx.   *)

\* The time a stored used_at stands for.
UsedAt(r) == [sec |-> r.used_at, us |-> 0]

\* C35: every prepared context that has used_at set was marked used before
\* its expires_at, and a step that changes the used_at of a context finds it
\* pending (used_at absent and now before expires_at): an expired context is
\* never marked used and used_at, once set, is never changed; also when time
\* advances between the read and the write of a call.
C35_ExpiredIsTerminal ==
  /\ [](\A i \in 1..Len(prepared_contexts) :
          prepared_contexts[i].used_at # NULL
            => TimeLT(UsedAt(prepared_contexts[i]),
                      fromisoformat(prepared_contexts[i].expires_at)))
  /\ [][\A i \in 1..Len(prepared_contexts) :
          prepared_contexts'[i].used_at # prepared_contexts[i].used_at
            => Pending(prepared_contexts[i], now)]_vars

\* C36: a get_prepared_context call never finds a context when a newer one
\* (one saved after it) is in the table, whatever has become of the newer
\* one.
C36_SingleSlot ==
  [][\A p \in Callers :
       Queries(p) /\ ctx'[p] # NULL
         => \A i \in 1..Len(prepared_contexts) : prepared_contexts[i].id <= ctx'[p]]_vars

----------------------------------------------------------------------------
(* Claims about the life of a conversation, checked under SpecConversation. *)

\* C37: every conversation that is flagged analyzed has ended_at set (it was
\* closed before it was analyzed), also a conversation that
\* ingest_conversation created and run_analysis was given the id of.
C37_AnalyzedAfterClosed ==
  \A i \in 1..Len(conversations) :
    conversations[i].analyzed => conversations[i].ended_at # NULL

\* The prepared contexts that refer to a conversation.
ContextsOf(conversation_id) ==
  {id \in DOMAIN context_payloads :
     context_payloads[id].conversation_id = conversation_id}

\* C38: in every state, those between two store writes of run_analysis
\* included, a conversation that is flagged analyzed has a prepared context
\* that refers to it: the context is saved before the conversation is
\* marked.
C38_ContextBeforeAnalyzed ==
  \A i \in 1..Len(conversations) :
    conversations[i].analyzed => ContextsOf(conversations[i].id) # {}

\* run_analysis has returned its result for a conversation that is now
\* flagged analyzed and has its context.
C38_Witness ==
  /\ apc = "idle"
  /\ areturn = "result"
  /\ \E i \in 1..Len(conversations) :
       /\ conversations[i].analyzed
       /\ ContextsOf(conversations[i].id) # {}
       /\ ContextsOf(conversations[i].id) \subseteq
            {prepared_contexts[k].id : k \in 1..Len(prepared_contexts)}

----------------------------------------------------------------------------
(* Claims about how run_analysis ends, checked under SpecAnalysis.         *)

\* C39: whatever the answer of the model parses to, run_analysis ends with a
\* result or an error value, never with an exception, and when it has ended
\* every conversation it created has its prepared context.
C39_NeverRaises ==
  /\ areturn # "raised"
  /\ apc = "idle" =>
       \A i \in 1..Len(conversations) :
         conversations[i].summary = ContextSummary
           => ContextsOf(conversations[i].id) # {}

----------------------------------------------------------------------------
(* Claims about overlapping ingest_entity calls, checked under             *)
(* SpecEntityRace.                                                         *)

\* The rows whose name is the given name when both are lowercased.
RowsNamed(name) == {i \in 1..Len(entities) : lower(entities[i].name) = lower(name)}

\* C40: when two overlapping ingest_entity calls for names that are equal
\* when lowercased are both over, one entity row has that name and both
\* calls return its id.
C40_OneRowUnderRace ==
  \A p, q \in Ingesters :
    ( /\ p # q
      /\ epc[p] = "done"
      /\ epc[q] = "done"
      /\ lower(eargs[p].name) = lower(eargs[q].name) )
    => /\ Cardinality(RowsNamed(eargs[p].name)) = 1
       /\ eid[p] = eid[q]
       /\ \A i \in RowsNamed(eargs[p].name) : entities[i].id = eid[p]

====
